---- MODULE Spec2Model ----
(***************************************************************************)
(* Model of premise/electricity.py: class Electricity, its construction    *)
(* (production index, loss model) and update_electricity_markets (emptying *)
(* of the old markets, then the high, medium and low voltage cascade).     *)
(*                                                                         *)
(* Numbers: every amount, share and loss is an exact rational <<n, d>> in  *)
(* lowest terms (d > 0), so floating-point rounding is not modelled.  A    *)
(* numpy division by zero gives <<1, 0>> (inf), <<-1, 0>> or <<0, 0>>      *)
(* (nan).  Production volumes are counted in multiples of 1e-9, the floor  *)
(* of get_production_per_tech_dict, so that MinVolume is 1.                *)
(***************************************************************************)
EXTENDS Integers, Sequences, FiniteSets, TLC

VARIABLES
    pc,                  \* position of the run: "new", "empty", "high", ...
    error,               \* the exception that ended the run, "" when none
    system_model,        \* self.system_model
    year,                \* self.year
    losses,              \* content of losses_per_country.csv
    electricity_markets, \* self.iam_data.electricity_markets [region][year][variable]
    efficiency,          \* self.iam_data.efficiency at self.year [variable][region]
    database,            \* self.database, a list of datasets
    production_per_tech, \* self.production_per_tech
    network_loss,        \* self.network_loss
    modified_datasets,   \* self.modified_datasets[(model, scenario, year)]
    cache,               \* entries added by add_new_entry_to_cache
    logged,              \* lines written by write_log
    cursor,              \* position of the datasets_to_empty generator in the database
    region_idx,          \* index in self.regions of the region being built
    period_idx,          \* index in periods of the next period to build, 0 before the region's suppliers are resolved
    tech_suppliers       \* tech_suppliers of the region being built

vars == <<pc, error, system_model, year, losses, electricity_markets, efficiency, database,
          production_per_tech, network_loss, modified_datasets, cache, logged,
          cursor, region_idx, period_idx, tech_suppliers>>

-----------------------------------------------------------------------------
(* Exact rational arithmetic standing for Python / numpy floats.           *)

Abs(n) == IF n < 0 THEN -n ELSE n

Sign(n) == IF n < 0 THEN -1 ELSE IF n = 0 THEN 0 ELSE 1

RECURSIVE GCD(_, _)
GCD(a, b) == IF b = 0 THEN a ELSE GCD(b, a % b)

Rat(n, d) ==
    IF d = 0 THEN <<Sign(n), 0>>
    ELSE LET g == GCD(Abs(n), Abs(d))
         IN  <<Sign(d) * (n \div g), Abs(d) \div g>>

Zero == <<0, 1>>
One == <<1, 1>>

RAdd(a, b) ==
    IF a[2] = b[2] THEN Rat(a[1] + b[1], a[2])
    ELSE LET g == GCD(a[2], b[2])
         IN  Rat(a[1] * (b[2] \div g) + b[1] * (a[2] \div g), (a[2] \div g) * b[2])

RNeg(a) == <<-a[1], a[2]>>

RSub(a, b) == RAdd(a, RNeg(b))

RMul(a, b) ==
    LET x == Rat(a[1], b[2])
        y == Rat(b[1], a[2])
    IN  Rat(x[1] * y[1], x[2] * y[2])

\* numpy semantics: a division by zero yields inf or nan, never an exception
RDiv(a, b) ==
    IF b[1] = 0 THEN <<Sign(a[1]), 0>>
    ELSE RMul(a, <<Sign(b[1]) * b[2], Abs(b[1])>>)

RGt(a, b) == a[1] * b[2] > b[1] * a[2]

RGe(a, b) == a[1] * b[2] >= b[1] * a[2]

RFinite(a) == a[2] # 0

RECURSIVE RSum(_)
RSum(s) == IF s = <<>> THEN Zero ELSE RAdd(s[1], RSum(Tail(s)))

-----------------------------------------------------------------------------
(* Strings: Python's `sub in s` and s.lower().                             *)

Contains(s, sub) ==
    \E i \in 1..(Len(s) - Len(sub) + 1) : SubSeq(s, i, i + Len(sub) - 1) = sub

StartsWith(s, sub) == Len(s) >= Len(sub) /\ SubSeq(s, 1, Len(sub)) = sub

LowerChar(c) ==
    CASE c = "C" -> "c" [] c = "H" -> "h" [] c = "P" -> "p" [] c = "R" -> "r"
      [] c = "S" -> "s" [] c = "V" -> "v" [] OTHER -> c

RECURSIVE Lower(_)
Lower(s) == IF Len(s) = 0 THEN "" ELSE LowerChar(SubSeq(s, 1, 1)) \o Lower(SubSeq(s, 2, Len(s)))

\* generic helpers; Table(f) is f, tabulated once instead of at every use
Table(f) == f @@ <<>>

Range(s) == {s[i] : i \in 1..Len(s)}

-----------------------------------------------------------------------------
(* Collaborators and static tables.                                        *)

\* self.regions, in iteration order
regions == <<"EUR", "CHA">>

\* self.geo.iam_to_ecoinvent_location(region)
iam_to_ecoinvent_location(region) ==
    IF region = "EUR" THEN <<"DE", "FR">> ELSE <<"CN">>

\* self.ecoinvent_to_iam_loc[location]
ecoinvent_to_iam_loc(location) ==
    IF location \in {"DE", "FR", "CH", "RER", "EUR"} THEN "EUR" ELSE "CHA"

\* self.iam_data.electricity_markets.variables.values
mix_variables == <<"Coal PC", "Hydro", "Solar PV Residential">>

\* self.powerplant_map[technology]
powerplant_map(technology) ==
    CASE technology = "Coal PC" -> {"electricity production, hard coal"}
      [] technology = "Hydro" -> {"electricity production, hydro, reservoir"}
      [] technology = "Biomass CHP CCS" -> {"electricity production, at wood CHP, post, storage"}
      [] technology = "Biomass ST" -> {"electricity production, at wood steam turbine"}
      [] OTHER -> {"electricity production, photovoltaic, 3kWp"}

\* the keys of self.powerplant_map
powerplant_technologies == mix_variables \o <<"Biomass CHP CCS", "Biomass ST">>

\* self.powerplant_map_rev.get(name, ""): lines 204-207
powerplant_map_rev(name) ==
    IF \E i \in 1..Len(powerplant_technologies) : name \in powerplant_map(powerplant_technologies[i])
    THEN powerplant_technologies[
             CHOOSE i \in 1..Len(powerplant_technologies) :
                 name \in powerplant_map(powerplant_technologies[i])]
    ELSE ""

\* self.powerplant_fuels_map[technology]
powerplant_fuels_map(technology) ==
    IF technology = "Coal PC" THEN {"hard coal"} ELSE {}

\* the floor of the production index, in multiples of 1e-9
MinVolume == 1

\* the share below which a supplier is dropped: 0.001
ShareCutoff == <<1, 1000>>

\* the periods each builder loops over
high_voltage_periods == IF system_model = "consequential" THEN <<0>> ELSE <<0, 20, 40, 60>>

\* the four periods whatever the system model
medium_voltage_periods_always == <<0, 20, 40, 60>>

medium_voltage_periods == IF system_model = "consequential" THEN <<0>> ELSE <<0, 20, 40, 60>>

low_voltage_periods == IF system_model = "consequential" THEN <<0>> ELSE <<0, 20, 40, 60>>

-----------------------------------------------------------------------------
(* Datasets and exchanges.                                                 *)

\* an exchange; its amount is coef x amount, coef being "1" except for the
\* fixed leakage and network coefficients; pv is <<>> when the exchange has
\* no "production volume"
Exchange(type, name, product, unit, location, amount) ==
    [type |-> type, name |-> name, product |-> product, unit |-> unit,
     location |-> location, amount |-> amount, coef |-> "1", pv |-> <<>>]

Dataset(name, product, location, unit, exchanges) ==
    [name |-> name, product |-> product, location |-> location, unit |-> unit,
     exchanges |-> exchanges, has_downstream_consumer |-> "unset", log |-> <<>>]

\* ws.production(dataset), ws.technosphere(dataset), ws.biosphere(dataset)
production(dataset) == SelectSeq(dataset.exchanges, LAMBDA e : e.type = "production")

technosphere(dataset) == SelectSeq(dataset.exchanges, LAMBDA e : e.type = "technosphere")

biosphere(dataset) == SelectSeq(dataset.exchanges, LAMBDA e : e.type = "biosphere")

-----------------------------------------------------------------------------
(* Production Index: get_production_per_tech_dict.                         *)

all_powerplant_names ==
    UNION {powerplant_map(powerplant_technologies[i]) : i \in 1..Len(powerplant_technologies)}

Max(a, b) == IF a >= b THEN a ELSE b

\* the default for a missing production volume without the floor on the others
floored_volume_default_only(exc) == IF exc.pv = <<>> THEN MinVolume ELSE exc.pv[1]

\* max(float(exc.get("production volume", 1e-9)), 1e-9)
floored_volume(exc) == Max(IF exc.pv = <<>> THEN MinVolume ELSE exc.pv[1], MinVolume)

RECURSIVE index_exchanges(_, _, _)
index_exchanges(vols, dataset, excs) ==
    IF excs = <<>> THEN vols
    ELSE index_exchanges(
             [k \in DOMAIN vols \cup {<<dataset.name, dataset.location>>} |->
                 IF k = <<dataset.name, dataset.location>>
                 THEN floored_volume(excs[1]) ELSE vols[k]],
             dataset, Tail(excs))

RECURSIVE index_datasets(_, _)
index_datasets(vols, db) ==
    IF db = <<>> THEN vols
    ELSE index_datasets(
             IF db[1].name \in all_powerplant_names
             THEN index_exchanges(vols, db[1], production(db[1]))
             ELSE vols,
             Tail(db))

get_production_per_tech_dict(db) == index_datasets(<<>>, db)

-----------------------------------------------------------------------------
(* Loss Model: get_production_weighted_losses.                             *)

\* losses.get(loc, {<every key>: 0})
loss_record(table, loc, key) == IF loc \in DOMAIN table THEN table[loc][key] ELSE Zero

\* sum over locs of dict_loss[key] * dict_loss["Production volume"]
RECURSIVE weighted_sum(_, _, _)
weighted_sum(table, locs, key) ==
    IF locs = <<>> THEN Zero
    ELSE RAdd(RMul(loss_record(table, locs[1], key),
                   loss_record(table, locs[1], "Production volume")),
              weighted_sum(table, Tail(locs), key))

RECURSIVE cumul_prod(_, _)
cumul_prod(table, locs) ==
    IF locs = <<>> THEN Zero
    ELSE RAdd(loss_record(table, locs[1], "Production volume"), cumul_prod(table, Tail(locs)))

\* a Python float division: x /= cumul_prod raises ZeroDivisionError on zero
get_production_weighted_losses(table, locs) ==
    LET total == cumul_prod(table, locs)
        avg(key) == RDiv(weighted_sum(table, locs, key), total)
    IN  IF total = Zero
        THEN [raised |-> TRUE]
        ELSE [raised |-> FALSE,
              high |-> [transf_loss |-> avg("Transformation loss high voltage"),
                        distr_loss |-> Zero],
              medium |-> [transf_loss |-> avg("Transformation loss medium voltage"),
                          distr_loss |-> avg("Transmission loss to medium voltage")],
              low |-> [transf_loss |-> avg("Transformation loss low voltage"),
                       distr_loss |-> avg("Transmission loss to low voltage")]]

-----------------------------------------------------------------------------
(* Inputs of a run: the operating mode, the loss table, the scenario and   *)
(* the base database.                                                      *)

\* largest number of coal plants of the varied locations in a base database
MaxPlants == 2

Modes == {"consequential", "cutoff"}

RunYears == {2030}

\* the years at which the scenario is sampled
ScenarioYears == <<2030, 2040, 2050>>

LossKeys ==
    {"Transformation loss high voltage", "Transformation loss medium voltage",
     "Transmission loss to medium voltage", "Transformation loss low voltage",
     "Transmission loss to low voltage", "Production volume"}

\* two rows of the loss table, in hundredths, before their production volume
LossProfiles ==
    {<<3, 2, 5, 4, 10>>, <<1, 0, 3, 2, 6>>}

LossVolumes == {0, 1, 3}

LossRecord(p, v) ==
    [k \in LossKeys |->
        CASE k = "Transformation loss high voltage" -> Rat(p[1], 100)
          [] k = "Transformation loss medium voltage" -> Rat(p[2], 100)
          [] k = "Transmission loss to medium voltage" -> Rat(p[3], 100)
          [] k = "Transformation loss low voltage" -> Rat(p[4], 100)
          [] k = "Transmission loss to low voltage" -> Rat(p[5], 100)
          [] OTHER -> Rat(v, 1)]

LossRecords == {LossRecord(p, v) : p \in LossProfiles, v \in LossVolumes}

LossLocations == {"DE", "FR", "CN"}

\* every table over a subset of the locations: a location may be absent
LossTables == UNION {[S -> LossRecords] : S \in SUBSET LossLocations}

DefaultLosses ==
    [loc \in LossLocations |->
        IF loc = "DE" THEN LossRecord(<<3, 2, 5, 4, 10>>, 3)
        ELSE LossRecord(<<1, 0, 3, 2, 6>>, 1)]

\* scenario shares, in tenths
MixLevels == {0, 3, 5, 7}

MixVector(c, h, s) ==
    [v \in Range(mix_variables) |->
        IF v = "Coal PC" THEN Rat(c, 10) ELSE IF v = "Hydro" THEN Rat(h, 10) ELSE Rat(s, 10)]

MixVectors ==
    {MixVector(t[1], t[2], t[3]) :
        t \in {u \in MixLevels \X MixLevels \X MixLevels : u[1] + u[2] + u[3] = 10}}

Signal(m1, m2, m3) ==
    [y \in Range(ScenarioYears) |->
        IF y = ScenarioYears[1] THEN m1 ELSE IF y = ScenarioYears[2] THEN m2 ELSE m3]

\* the signals explored: any two first samples, then one of two last ones
Signals ==
    {Signal(m1, m2, m3) : m1 \in MixVectors, m2 \in MixVectors,
                          m3 \in {MixVector(0, 5, 5), MixVector(5, 5, 0)}}

DefaultSignal(region) ==
    IF region = "EUR"
    THEN Signal(MixVector(3, 5, 2), MixVector(2, 5, 3), MixVector(0, 5, 5))
    ELSE Signal(MixVector(5, 5, 0), MixVector(5, 3, 2), MixVector(3, 2, 5))

DefaultScenario == [r \in Range(regions) |-> DefaultSignal(r)]

\* the places where the base database may hold a power plant
PlantSlots ==
    << <<"Coal PC", "DE">>, <<"Coal PC", "FR">>, <<"Coal PC", "RoW">>,
       <<"Coal PC", "CN">>, <<"Hydro", "RoW">>,
       <<"Solar PV Residential", "DE">>, <<"Solar PV Residential", "FR">>,
       <<"Solar PV Residential", "CH">> >>

CoalSlots == {1, 2, 3}
SolarSlots == {6, 7, 8}

\* what a slot holds: nothing, a plant without production exchange, a plant
\* whose production exchange has no production volume, or one with a volume
Absent == <<"absent">>

DefaultPlants ==
    [i \in 1..Len(PlantSlots) |->
        CASE i = 1 -> <<"pv", 80>> [] i = 2 -> <<"pv", 20>> [] i = 3 -> Absent
          [] i = 4 -> <<"pv", 100>> [] i = 5 -> <<"pv", 50>>
          [] i = 6 -> <<"pv", 30>> [] i = 7 -> <<"pv", 10>> [] OTHER -> <<"nopv">>]

CoalOptions == {Absent, <<"noprod">>, <<"nopv">>, <<"pv", 20>>, <<"pv", 2000>>}

\* the residential solar plants present: all, the first native one, the one
\* of the last fallback location, none
SolarChoices == {SolarSlots, {6}, {8}, {}}

PlantConfigs ==
    {[i \in 1..Len(PlantSlots) |->
         IF i \in CoalSlots THEN c[i]
         ELSE IF i \in SolarSlots /\ i \notin s THEN Absent ELSE DefaultPlants[i]] :
        c \in {f \in [CoalSlots -> CoalOptions] :
                  Cardinality({i \in CoalSlots : f[i] # Absent}) <= MaxPlants},
        s \in SolarChoices}

PlantDataset(slot, option) ==
    LET name == CHOOSE n \in powerplant_map(slot[1]) : TRUE
        product == IF slot[1] = "Solar PV Residential"
                   THEN "electricity, low voltage" ELSE "electricity, high voltage"
        prod == Exchange("production", name, product, "kilowatt hour", slot[2], One)
    IN  Dataset(name, product, slot[2], "kilowatt hour",
                IF option = <<"noprod">> THEN <<>>
                ELSE IF option = <<"nopv">> THEN <<prod>>
                ELSE << [prod EXCEPT !.pv = <<option[2]>>] >>)

RECURSIVE Plants(_, _)
Plants(config, i) ==
    IF i > Len(PlantSlots) THEN <<>>
    ELSE (IF config[i] = Absent THEN <<>> ELSE <<PlantDataset(PlantSlots[i], config[i])>>)
         \o Plants(config, i + 1)

\* a market of the base database with one supplier of its own
OldMarket(name, product, location) ==
    Dataset(name, product, location, "kilowatt hour",
            << Exchange("production", name, product, "kilowatt hour", location, One),
               Exchange("technosphere", "electricity production, hard coal",
                        "electricity, high voltage", "kilowatt hour", location, One) >>)

Auxiliary(name, product, unit) ==
    Dataset(name, product, "RoW", unit,
            << Exchange("production", name, product, unit, "RoW", One) >>)

BaseMarkets ==
    << OldMarket("market for electricity, high voltage", "electricity, high voltage", "DE"),
       OldMarket("market group for electricity, medium voltage", "electricity, medium voltage", "RER"),
       OldMarket("market for electricity, medium voltage, aluminium industry",
                 "electricity, medium voltage, aluminium industry", "CN"),
       OldMarket("market for electricity, low voltage", "electricity, low voltage", "CN"),
       Auxiliary("market for sulfur hexafluoride, liquid", "sulfur hexafluoride, liquid", "kilogram"),
       Auxiliary("transmission network construction, electricity, medium voltage",
                 "transmission network, electricity, medium voltage", "kilometer"),
       Auxiliary("distribution network construction, electricity, low voltage",
                 "distribution network, electricity, low voltage", "kilometer") >>

BaseDatabase(config) == BaseMarkets \o Plants(config, 1)

\* the relative efficiency change of each technology of the scenario that has
\* an efficiency variable, per region; NaN where the scenario has no value
NaN == <<0, 0>>

DefaultEfficiency ==
    [v \in {"Coal PC"} |-> [r \in Range(regions) |-> Rat(8, 7)]]

Input(mode, table, scenario, config) ==
    [system_model |-> mode, losses |-> table, electricity_markets |-> scenario,
     database |-> BaseDatabase(config)]

\* the runs explored: each family varies one input over its whole set
SupplierFamily ==
    {Input(m, DefaultLosses, DefaultScenario, c) : m \in Modes, c \in PlantConfigs}

MixFamily ==
    {Input(m, DefaultLosses, [DefaultScenario EXCEPT !["EUR"] = g], DefaultPlants) :
        m \in Modes, g \in Signals}

LossFamily ==
    {Input("consequential", t, DefaultScenario, DefaultPlants) : t \in LossTables}

\* a native coal plant whose production volume is zero or negative
FloorFamily ==
    {Input(m, DefaultLosses, DefaultScenario, [DefaultPlants EXCEPT ![2] = <<"pv", v>>]) :
        m \in Modes, v \in {0, -5}}

\* two native coal plants, the second with exactly 0.1 % of their volume
CutoffFamily ==
    {Input(m, DefaultLosses, DefaultScenario,
           [DefaultPlants EXCEPT ![1] = <<"pv", 999>>, ![2] = <<"pv", 1>>]) : m \in Modes}

Inputs == SupplierFamily \cup MixFamily \cup LossFamily \cup FloorFamily \cup CutoffFamily

Init ==
    /\ \E inp \in Inputs :
          /\ system_model = inp.system_model
          /\ losses = inp.losses
          /\ electricity_markets = inp.electricity_markets
          /\ efficiency = DefaultEfficiency
          /\ database = inp.database
    /\ year \in RunYears
    /\ pc = "new"
    /\ error = ""
    /\ production_per_tech = <<>>
    /\ network_loss = <<>>
    /\ modified_datasets = [created |-> <<>>, emptied |-> <<>>]
    /\ cache = {}
    /\ logged = <<>>
    /\ cursor = 0
    /\ region_idx = 0
    /\ period_idx = 0
    /\ tech_suppliers = <<>>

-----------------------------------------------------------------------------
(* Electricity.__init__: the production index, then the loss model of     *)
(* every region.  A failing loss model ends the construction.              *)

region_losses == [r \in Range(regions) |->
                     get_production_weighted_losses(losses, iam_to_ecoinvent_location(r))]

Construct ==
    /\ pc = "new"
    /\ production_per_tech' = get_production_per_tech_dict(database)
    /\ IF \E r \in Range(regions) : region_losses[r].raised
       THEN /\ pc' = "failed"
            /\ error' = "ZeroDivisionError"
            /\ UNCHANGED network_loss
       ELSE /\ pc' = "ready"
            /\ network_loss' = region_losses
            /\ UNCHANGED error
    /\ UNCHANGED <<system_model, year, losses, electricity_markets, efficiency, database,
                   modified_datasets, cache, logged, cursor, region_idx,
                   period_idx, tech_suppliers>>

-----------------------------------------------------------------------------
(* Temporal Averaging: the mix vector of a region and period.              *)

\* the segment of the scenario years used to interpolate at year y; the first
\* or last one when y lies outside them (fill_value="extrapolate")
RECURSIVE segment(_, _)
segment(y, i) ==
    IF i >= Len(ScenarioYears) - 1 \/ y <= ScenarioYears[i + 1] THEN i ELSE segment(y, i + 1)

\* an interpolation that holds the last sample past the last scenario year
interp_held(signal, variable, y) ==
    LET last == ScenarioYears[Len(ScenarioYears)]
        i == segment(y, 1)
        y0 == ScenarioYears[i]
        y1 == ScenarioYears[i + 1]
        v0 == signal[y0][variable]
        v1 == signal[y1][variable]
    IN  IF y >= last THEN signal[last][variable]
        ELSE Rat(v0[1] * v1[2] * (y1 - y) + v1[1] * v0[2] * (y - y0),
                 v0[2] * v1[2] * (y1 - y0))

\* .interp(year=y): linear through the two samples of the segment,
\* v0 + (v1 - v0) * (y - y0) / (y1 - y0), as one fraction
interp(signal, variable, y) ==
    LET i == segment(y, 1)
        y0 == ScenarioYears[i]
        y1 == ScenarioYears[i + 1]
        v0 == signal[y0][variable]
        v1 == signal[y1][variable]
    IN  Rat(v0[1] * v1[2] * (y1 - y) + v1[1] * v0[2] * (y - y0), v0[2] * v1[2] * (y1 - y0))

\* the sum of the interpolated signal over the years first..last, summed
\* by halves as numpy's pairwise summation does
RECURSIVE interp_sum(_, _, _, _)
interp_sum(signal, variable, first, last) ==
    IF first = last THEN interp(signal, variable, first)
    ELSE LET mid == (first + last) \div 2
         IN  RAdd(interp_sum(signal, variable, first, mid),
                  interp_sum(signal, variable, mid + 1, last))

\* consequential: .sel(region, year); otherwise the mean over
\* np.arange(year, year + period + 1) of the interpolated signal
electricity_mix(region, period) ==
    Table([v \in Range(mix_variables) |->
        IF system_model = "consequential"
        THEN electricity_markets[region][year][v]
        ELSE RDiv(interp_sum(electricity_markets[region], v, year, year + period),
                  Rat(period + 1, 1))])

-----------------------------------------------------------------------------
(* Supplier Resolver and Allocation Engine.                                *)

is_residential_solar(tech) == Contains(Lower(tech), "solar pv residential")

\* the scopes with the rest of the world tried before the native locations
possible_locations_world_first(region) ==
    << <<region>>, <<"RoW">>, iam_to_ecoinvent_location(region), <<"RER">>, <<"CH">> >>

possible_locations(region) ==
    << <<region>>, iam_to_ecoinvent_location(region), <<"RER">>, <<"RoW">>, <<"CH">> >>

\* transformation.get_suppliers_of_a_region
get_suppliers_of_a_region(db, locations, names, reference_prod, unit) ==
    SelectSeq(db, LAMBDA d :
        /\ d.unit = unit
        /\ d.location \in Range(locations)
        /\ Contains(d.product, reference_prod)
        /\ \E n \in names : Contains(d.name, n))

\* the while loop over possible_locations[counter]: the matches of the first
\* scope that has any; possible_locations[5] raises IndexError
RECURSIVE resolve_suppliers(_, _, _, _)
resolve_suppliers(db, region, technology, counter) ==
    IF counter > Len(possible_locations(region))
    THEN [raised |-> TRUE, suppliers |-> <<>>]
    ELSE LET found == get_suppliers_of_a_region(db, possible_locations(region)[counter],
                          powerplant_map(technology), "electricity", "kilowatt hour")
         IN  IF Len(found) # 0
             THEN [raised |-> FALSE, suppliers |-> found]
             ELSE resolve_suppliers(db, region, technology, counter + 1)

\* the lookup with the minimum volume, not 0, for a missing entry
indexed_volume_or_minimum(supplier) ==
    IF <<supplier.name, supplier.location>> \in DOMAIN production_per_tech
    THEN production_per_tech[<<supplier.name, supplier.location>>] ELSE MinVolume

\* self.production_per_tech.get((name, location), 0)
indexed_volume(supplier) ==
    IF <<supplier.name, supplier.location>> \in DOMAIN production_per_tech
    THEN production_per_tech[<<supplier.name, supplier.location>>] ELSE 0

RECURSIVE total_production(_)
total_production(suppliers) ==
    IF suppliers = <<>> THEN 0
    ELSE indexed_volume(suppliers[1]) + total_production(Tail(suppliers))

\* the share without the equal split: nothing when the list has no volume
get_production_weighted_share_or_nothing(supplier, suppliers) ==
    IF total_production(suppliers) # 0
    THEN Rat(indexed_volume(supplier), total_production(suppliers))
    ELSE Zero

get_production_weighted_share(supplier, suppliers) ==
    IF total_production(suppliers) # 0
    THEN Rat(indexed_volume(supplier), total_production(suppliers))
    ELSE Rat(1, Len(suppliers))

check_for_production_volume(suppliers) ==
    SelectSeq(suppliers, LAMBDA s : get_production_weighted_share(s, suppliers) # Zero)

\* the fields of a supplier that the market builders read
supplier_ref(d) ==
    [name |-> d.name, product |-> d.product, unit |-> d.unit, location |-> d.location]

share_above_cutoff(pair) == RGt(pair[2], ShareCutoff)

\* the allocation without its last statement, the rescaling of the kept shares
allocate_without_rescaling(found) ==
    LET suppliers == check_for_production_volume(found)
        weighted == [i \in 1..Len(suppliers) |->
                        <<supplier_ref(suppliers[i]),
                          get_production_weighted_share(suppliers[i], suppliers)>>]
    IN  SelectSeq(weighted, share_above_cutoff)

\* lines 856-875 and 345-363: drop the suppliers without volume, weight the
\* others, drop the shares not above 0.1 %, rescale to a sum of 1
allocate(found) ==
    LET suppliers == check_for_production_volume(found)
        weighted == [i \in 1..Len(suppliers) |->
                        <<supplier_ref(suppliers[i]),
                          get_production_weighted_share(suppliers[i], suppliers)>>]
        kept == SelectSeq(weighted, share_above_cutoff)
        total_share == RSum([i \in 1..Len(kept) |-> kept[i][2]])
    IN  [i \in 1..Len(kept) |-> <<kept[i][1], RDiv(kept[i][2], total_share)>>]

shares_of(allocation) == [i \in 1..Len(allocation) |-> allocation[i][2]]

\* BaseTransformation.select_multiple_suppliers: the datasets of that name,
\* each with an equal share
select_multiple_suppliers(db, possible_names) ==
    LET found == SelectSeq(db, LAMBDA d : d.name \in possible_names)
    IN  [i \in 1..Len(found) |-> <<supplier_ref(found[i]), Rat(1, Len(found))>>]

-----------------------------------------------------------------------------
(* The market builders.                                                    *)

market_name(voltage, period) ==
    IF period # 0
    THEN "market group for electricity, " \o voltage \o ", " \o ToString(period) \o "-year period"
    ELSE "market group for electricity, " \o voltage

\* the key of a voltage in self.network_loss[region]
voltage_key(voltage) ==
    IF voltage = "high voltage" THEN "high" ELSE IF voltage = "medium voltage" THEN "medium" ELSE "low"

\* an exchange of a created market: it carries "production volume": 0
market_exchange(type, name, product, unit, location, amount) ==
    [Exchange(type, name, product, unit, location, amount) EXCEPT !.pv = <<0>>]

\* the inputs of a fixed coefficient, one per supplier of possible_names
coefficient_inputs(db, possible_names, coef) ==
    LET found == select_multiple_suppliers(db, possible_names)
    IN  [i \in 1..Len(found) |->
            [market_exchange("technosphere", found[i][1].name, found[i][1].product,
                             found[i][1].unit, found[i][1].location, found[i][2])
                EXCEPT !.coef = coef]]

sf6_emission(coef) ==
    [Exchange("biosphere", "Sulfur hexafluoride", "", "kilogram", "", One) EXCEPT !.coef = coef]

\* the inputs of one technology without the division by the non-solar share
supplier_inputs_undivided(allocation, amount, divisor) ==
    [i \in 1..Len(allocation) |->
        market_exchange("technosphere", allocation[i][1].name, allocation[i][1].product,
                        allocation[i][1].unit, allocation[i][1].location,
                        RMul(amount, allocation[i][2]))]

\* the inputs of one technology, each supplier with the whole share of the
\* technology
supplier_inputs_unshared(allocation, amount, divisor) ==
    [i \in 1..Len(allocation) |->
        market_exchange("technosphere", allocation[i][1].name, allocation[i][1].product,
                        allocation[i][1].unit, allocation[i][1].location,
                        RDiv(amount, divisor))]

\* the inputs of one technology: one exchange per supplier of its allocation
supplier_inputs(allocation, amount, divisor) ==
    [i \in 1..Len(allocation) |->
        market_exchange("technosphere", allocation[i][1].name, allocation[i][1].product,
                        allocation[i][1].unit, allocation[i][1].location,
                        RDiv(RMul(amount, allocation[i][2]), divisor))]

\* the loops over technologies with the test `>= 0` in place of `> 0`
technology_inputs_from_zero(technologies, mix, allocations, divisor) ==
    LET inputs[n \in 0..Len(technologies)] ==
            IF n = 0 THEN <<>>
            ELSE inputs[n - 1]
                 \o (IF RGe(mix[technologies[n]], Zero)
                     THEN supplier_inputs(allocations[technologies[n]],
                                          mix[technologies[n]], divisor)
                     ELSE <<>>)
    IN  inputs[Len(technologies)]

\* the loops over technologies: a technology contributes when its share is > 0
RECURSIVE technology_inputs(_, _, _, _)
technology_inputs(technologies, mix, allocations, divisor) ==
    IF technologies = <<>> THEN <<>>
    ELSE (IF RGt(mix[technologies[1]], Zero)
          THEN supplier_inputs(allocations[technologies[1]], mix[technologies[1]], divisor)
          ELSE <<>>)
         \o technology_inputs(Tail(technologies), mix, allocations, divisor)

\* the sum of the shares of the technologies of `counted`, in mix order
RECURSIVE mix_sum(_, _, _)
mix_sum(technologies, mix, counted) ==
    IF technologies = <<>> THEN Zero
    ELSE RAdd(IF technologies[1] \in counted THEN mix[technologies[1]] ELSE Zero,
              mix_sum(Tail(technologies), mix, counted))

\* the technologies of the high voltage and of the low voltage builder
high_voltage_technologies == SelectSeq(mix_variables, LAMBDA t : ~is_residential_solar(t))

low_voltage_technologies == SelectSeq(mix_variables, is_residential_solar)

residential_solar == {t \in Range(mix_variables) : is_residential_solar(t)}

renewable_techs == {"solar", "wind", "geothermal", "hydro", "biomass", "biogas", "wave"}

renewables == {t \in Range(mix_variables) : \E x \in renewable_techs : Contains(Lower(t), x)}

\* a reference product exchange that carries the market's total supply, 1 plus
\* its transformation loss, instead of the normalised output
production_exchange_gross(voltage, period, region) ==
    market_exchange("production", market_name(voltage, period), "electricity, " \o voltage,
                    "kilowatt hour", region,
                    RAdd(One, network_loss[region][voltage_key(voltage)].transf_loss))

\* the reference product exchange of a market: amount 1
production_exchange(voltage, period, region) ==
    market_exchange("production", market_name(voltage, period), "electricity, " \o voltage,
                    "kilowatt hour", region, One)

\* the self-consuming input named after the market of period 0
self_loop_unsuffixed(voltage, period, region) ==
    market_exchange("technosphere", market_name(voltage, 0), "electricity, " \o voltage,
                    "kilowatt hour", region, network_loss[region][voltage_key(voltage)].transf_loss)

\* the self-consuming input of a market: its transformation loss
self_loop(voltage, period, region) ==
    market_exchange("technosphere", market_name(voltage, period), "electricity, " \o voltage,
                    "kilowatt hour", region, network_loss[region][voltage_key(voltage)].transf_loss)

\* the input from the high voltage market without the distribution loss
high_voltage_input_lossless(region, period) ==
    market_exchange("technosphere", market_name("high voltage", period),
                    "electricity, high voltage", "kilowatt hour", region, One)

\* the input from the high voltage market, always that of period 0
high_voltage_input_unmatched(region, period) ==
    market_exchange("technosphere", market_name("high voltage", 0),
                    "electricity, high voltage", "kilowatt hour", region,
                    RAdd(One, network_loss[region].medium.distr_loss))

\* lines 668-682: the input of a medium voltage market from the high voltage one
high_voltage_input(region, period) ==
    market_exchange("technosphere", market_name("high voltage", period),
                    "electricity, high voltage", "kilowatt hour", region,
                    RAdd(One, network_loss[region].medium.distr_loss))

\* the input from the medium voltage market without the solar deduction
medium_voltage_input_whole(region, period, solar_amount) ==
    market_exchange("technosphere", market_name("medium voltage", period),
                    "electricity, medium voltage", "kilowatt hour", region,
                    RAdd(One, network_loss[region].low.distr_loss))

\* lines 540-554: the input of a low voltage market from the medium voltage one
medium_voltage_input(region, period, solar_amount) ==
    market_exchange("technosphere", market_name("medium voltage", period),
                    "electricity, medium voltage", "kilowatt hour", region,
                    RMul(RSub(One, solar_amount), RAdd(One, network_loss[region].low.distr_loss)))

log_parameters(distr_loss, transf_loss, renewable_share) ==
    << <<"distribution loss", distr_loss>>, <<"transformation loss", transf_loss>>,
       <<"renewable share", renewable_share>> >>

\* create_new_markets_high_voltage, the body of the loop over periods
high_voltage_market(db, region, period, allocations) ==
    LET mix == electricity_mix(region, period)
        solar_amount == mix_sum(mix_variables, mix, residential_solar)
        renewable_share == mix_sum(mix_variables, mix, renewables)
        new_exchanges ==
            << production_exchange("high voltage", period, region),
               self_loop("high voltage", period, region) >>
            \o technology_inputs(high_voltage_technologies, mix, allocations,
                                 RSub(One, solar_amount))
    IN  [Dataset(market_name("high voltage", period), "electricity, high voltage", region,
                 "kilowatt hour", new_exchanges)
            EXCEPT !.log = log_parameters(
                               Zero, network_loss[region].high.transf_loss,
                               RDiv(RSub(renewable_share, solar_amount),
                                    mix_sum(mix_variables, mix, Range(mix_variables))))]

\* create_new_markets_medium_voltage, the body of the loop over periods
medium_voltage_market(db, region, period) ==
    LET new_exchanges ==
            << production_exchange("medium voltage", period, region),
               high_voltage_input(region, period),
               self_loop("medium voltage", period, region) >>
            \o coefficient_inputs(db, {"market for sulfur hexafluoride, liquid"}, "5.4e-8")
            \o << sf6_emission("5.4e-8") >>
            \o coefficient_inputs(
                   db, {"transmission network construction, electricity, medium voltage"},
                   "1.8628e-8")
    IN  [Dataset(market_name("medium voltage", period), "electricity, medium voltage", region,
                 "kilowatt hour", new_exchanges)
            EXCEPT !.log = log_parameters(network_loss[region].medium.distr_loss,
                                          network_loss[region].medium.transf_loss, Zero)]

\* create_new_markets_low_voltage, the body of the loop over periods
low_voltage_market(db, region, period, allocations) ==
    LET mix == electricity_mix(region, period)
        distr_loss == network_loss[region].low.distr_loss
        solar_amount ==
            mix_sum(low_voltage_technologies, mix,
                    {t \in Range(low_voltage_technologies) : RGt(mix[t], Zero)})
        new_exchanges ==
            << production_exchange("low voltage", period, region) >>
            \o coefficient_inputs(db, {"market for sulfur hexafluoride, liquid"}, "2.99e-9")
            \o << sf6_emission("2.99e-9") >>
            \o coefficient_inputs(
                   db, {"distribution network construction, electricity, low voltage"},
                   "8.74e-8")
            \o technology_inputs(low_voltage_technologies, mix, allocations, One)
            \o << medium_voltage_input(region, period, solar_amount),
                  self_loop("low voltage", period, region) >>
    IN  [Dataset(market_name("low voltage", period), "electricity, low voltage", region,
                 "kilowatt hour", new_exchanges)
            EXCEPT !.log = log_parameters(distr_loss, network_loss[region].low.transf_loss,
                                          RDiv(solar_amount, RAdd(One, distr_loss)))]

ledger_entry(d) == <<d.name, d.product, d.location, d.unit>>

-----------------------------------------------------------------------------
(* update_electricity_markets: emptying the old markets.                   *)

list_to_empty ==
    {"market group for electricity", "market for electricity",
     "electricity, high voltage, import", "electricity, high voltage, production mix"}

list_to_preserve ==
    {"cobalt industry", "aluminium industry", "coal mining", "label-certified",
     "renewable energy products", "for reuse in municipal waste incineration",
     "Swiss Federal Railways"}

\* the filters of datasets_to_empty
is_to_empty(d) ==
    /\ d.unit = "kilowatt hour"
    /\ \E n \in list_to_empty : Contains(d.name, n)
    /\ ~ \E n \in list_to_preserve : Contains(d.name, n)

voltage_of(name) ==
    IF Contains(name, "high voltage") THEN "high voltage"
    ELSE IF Contains(name, "medium voltage") THEN "medium voltage"
    ELSE "low voltage"

\* the loop body without the filter on the exchanges: the input from the new
\* market is appended to what the dataset held
emptied_dataset_unfiltered(d) ==
    [d EXCEPT
        !.has_downstream_consumer = "False",
        !.exchanges =
            d.exchanges
            \o << Exchange("technosphere",
                           "market group for electricity, " \o voltage_of(d.name),
                           "electricity, " \o voltage_of(d.name), "kilowatt hour",
                           ecoinvent_to_iam_loc(d.location), One) >>]

\* the loop body with the new input at the location of the dataset itself
emptied_dataset_same_location(d) ==
    [d EXCEPT
        !.has_downstream_consumer = "False",
        !.exchanges =
            production(d)
            \o << Exchange("technosphere",
                           "market group for electricity, " \o voltage_of(d.name),
                           "electricity, " \o voltage_of(d.name), "kilowatt hour",
                           d.location, One) >>]

\* the body of the loop over datasets_to_empty
emptied_dataset(d) ==
    [d EXCEPT
        !.has_downstream_consumer = "False",
        !.exchanges =
            production(d)
            \o << Exchange("technosphere",
                           "market group for electricity, " \o voltage_of(d.name),
                           "electricity, " \o voltage_of(d.name), "kilowatt hour",
                           ecoinvent_to_iam_loc(d.location), One) >>]

\* an emptying loop that yields nothing
pending_none == {}

\* the datasets the generator has still to yield
pending == {i \in (cursor + 1)..Len(database) : is_to_empty(database[i])}

StartUpdate ==
    /\ pc = "ready"
    /\ pc' = "empty"
    /\ cursor' = 0
    /\ UNCHANGED <<error, system_model, year, losses, electricity_markets, efficiency, database,
                   production_per_tech, network_loss, modified_datasets, cache,
                   logged, region_idx, period_idx, tech_suppliers>>

\* the emptying loop still drawing from its generator while the builders append
EmptyOne_while_building ==
    /\ pc \in {"empty", "high", "medium", "low"}
    /\ pending # {}
    /\ LET i == CHOOSE j \in pending : \A k \in pending : j <= k
           d == emptied_dataset(database[i])
       IN  /\ database' = [database EXCEPT ![i] = d]
           /\ logged' = Append(logged, <<"updated", d.name, d.location>>)
           /\ modified_datasets' =
                  [modified_datasets EXCEPT !.emptied = Append(@, ledger_entry(d))]
           /\ cache' = cache \cup
                  {<<d.location, d.name, "market group for electricity, " \o voltage_of(d.name),
                     ecoinvent_to_iam_loc(d.location)>>}
           /\ cursor' = i
    /\ UNCHANGED <<pc, error, system_model, year, losses, electricity_markets, efficiency,
                   production_per_tech, network_loss, region_idx, period_idx,
                   tech_suppliers>>

EmptyOne ==
    /\ pc = "empty"
    /\ pending # {}
    /\ LET i == CHOOSE j \in pending : \A k \in pending : j <= k
           d == emptied_dataset(database[i])
       IN  /\ database' = [database EXCEPT ![i] = d]
           /\ logged' = Append(logged, <<"updated", d.name, d.location>>)
           /\ modified_datasets' =
                  [modified_datasets EXCEPT !.emptied = Append(@, ledger_entry(d))]
           /\ cache' = cache \cup
                  {<<d.location, d.name, "market group for electricity, " \o voltage_of(d.name),
                     ecoinvent_to_iam_loc(d.location)>>}
           /\ cursor' = i
    /\ UNCHANGED <<pc, error, system_model, year, losses, electricity_markets, efficiency,
                   production_per_tech, network_loss, region_idx, period_idx,
                   tech_suppliers>>

FinishEmptying ==
    /\ pc = "empty"
    /\ pending = {}
    /\ pc' = "high"
    /\ region_idx' = 1
    /\ period_idx' = 0
    /\ cursor' = Len(database)
    /\ UNCHANGED <<error, system_model, year, losses, electricity_markets, efficiency, database,
                   production_per_tech, network_loss, modified_datasets, cache,
                   logged, tech_suppliers>>

-----------------------------------------------------------------------------
(* The cascade: one step per region (its suppliers) and one per market.    *)

\* the resolution of every technology of `technologies` for a region
resolutions(region, technologies) ==
    Table([t \in Range(technologies) |-> resolve_suppliers(database, region, t, 1)])

\* after the market of period_idx: the next period, the next region (whose
\* first step is at period `first`), or the next tier; tech_suppliers lives
\* until the builder returns
Advance(tier_periods, next_pc, first) ==
    IF period_idx < Len(tier_periods)
    THEN /\ period_idx' = period_idx + 1
         /\ UNCHANGED <<pc, region_idx, tech_suppliers>>
    ELSE IF region_idx < Len(regions)
    THEN /\ region_idx' = region_idx + 1
         /\ period_idx' = first
         /\ UNCHANGED <<pc, tech_suppliers>>
    ELSE /\ pc' = next_pc
         /\ region_idx' = 1
         /\ period_idx' = IF next_pc = "medium" THEN 1 ELSE 0
         /\ tech_suppliers' = <<>>

\* the market appended when only its reference product exchange is built
Commit_before_inputs(d) ==
    /\ database' = Append(database, [d EXCEPT !.exchanges = <<d.exchanges[1]>>])
    /\ logged' = Append(logged, <<"created", d.name, d.location>>)
    /\ modified_datasets' = [modified_datasets EXCEPT !.created = Append(@, ledger_entry(d))]

\* the market appended and logged but not listed as created
Commit_unlisted(d) ==
    /\ database' = Append(database, d)
    /\ logged' = Append(logged, <<"created", d.name, d.location>>)
    /\ UNCHANGED modified_datasets

\* append the market, write its log line, list it as created
Commit(d) ==
    /\ database' = Append(database, d)
    /\ logged' = Append(logged, <<"created", d.name, d.location>>)
    /\ modified_datasets' = [modified_datasets EXCEPT !.created = Append(@, ledger_entry(d))]

\* lines 820-881: the suppliers of a region; an exhausted fallback chain is
\* skipped in consequential mode and ends the run otherwise
HVRegion ==
    /\ pc = "high"
    /\ period_idx = 0
    /\ LET technologies == high_voltage_technologies
           found == resolutions(regions[region_idx], technologies)
       IN  IF system_model # "consequential" /\ \E t \in Range(technologies) : found[t].raised
           THEN /\ pc' = "failed"
                /\ error' = "IndexError"
                /\ UNCHANGED <<period_idx, tech_suppliers>>
           ELSE /\ tech_suppliers' =
                       [t \in Range(technologies) |->
                           IF found[t].raised THEN <<>> ELSE allocate(found[t].suppliers)]
                /\ period_idx' = 1
                /\ UNCHANGED <<pc, error>>
    /\ UNCHANGED <<system_model, year, losses, electricity_markets, efficiency, database,
                   production_per_tech, network_loss, modified_datasets, cache,
                   logged, cursor, region_idx>>

HVMarket ==
    /\ pc = "high"
    /\ period_idx >= 1
    /\ Commit(high_voltage_market(database, regions[region_idx],
                                  high_voltage_periods[period_idx], tech_suppliers))
    /\ Advance(high_voltage_periods, "medium", 0)
    /\ UNCHANGED <<error, system_model, year, losses, electricity_markets, efficiency,
                   production_per_tech, network_loss, cache, cursor>>

MVMarket ==
    /\ pc = "medium"
    /\ Commit(medium_voltage_market(database, regions[region_idx],
                                    medium_voltage_periods[period_idx]))
    /\ Advance(medium_voltage_periods, "low", 1)
    /\ UNCHANGED <<error, system_model, year, losses, electricity_markets, efficiency,
                   production_per_tech, network_loss, cache, cursor>>

\* lines 313-363: as for high voltage, but the IndexError is not caught
LVRegion ==
    /\ pc = "low"
    /\ period_idx = 0
    /\ LET technologies == low_voltage_technologies
           found == resolutions(regions[region_idx], technologies)
       IN  IF \E t \in Range(technologies) : found[t].raised
           THEN /\ pc' = "failed"
                /\ error' = "IndexError"
                /\ UNCHANGED <<period_idx, tech_suppliers>>
           ELSE /\ tech_suppliers' =
                       [t \in Range(technologies) |-> allocate(found[t].suppliers)]
                /\ period_idx' = 1
                /\ UNCHANGED <<pc, error>>
    /\ UNCHANGED <<system_model, year, losses, electricity_markets, efficiency, database,
                   production_per_tech, network_loss, modified_datasets, cache,
                   logged, cursor, region_idx>>

LVMarket ==
    /\ pc = "low"
    /\ period_idx >= 1
    /\ Commit(low_voltage_market(database, regions[region_idx],
                                 low_voltage_periods[period_idx], tech_suppliers))
    /\ Advance(low_voltage_periods, "done", 0)
    /\ UNCHANGED <<error, system_model, year, losses, electricity_markets, efficiency,
                   production_per_tech, network_loss, cache, cursor>>

Next ==
    \/ Construct
    \/ StartUpdate
    \/ EmptyOne
    \/ FinishEmptying
    \/ HVRegion
    \/ HVMarket
    \/ MVMarket
    \/ LVRegion
    \/ LVMarket

Spec == Init /\ [][Next]_vars

-----------------------------------------------------------------------------
(* Efficiency Rescaler: update_electricity_efficiency.                     *)

\* np.clip(x, lo, hi)
clip(x, lo, hi) == IF RGt(lo, x) THEN lo ELSE IF RGt(x, hi) THEN hi ELSE x

\* every technology of the market mixes, with or without an efficiency variable
rescaled_technologies_unfiltered == mix_variables

\* lines 1590-1597: set(eff_labels).intersection(all_techs)
rescaled_technologies == SelectSeq(mix_variables, LAMBDA t : t \in DOMAIN efficiency)

\* lines 1606-1615: unit kilowatt hour and a technology filter contained in the name
is_rescaled(d, technology) ==
    /\ d.unit = "kilowatt hour"
    /\ \E n \in powerplant_map(technology) : Contains(d.name, n)

\* BaseTransformation.find_fuel_efficiency: the energy delivered, 3.6 MJ per
\* kilowatt hour, over the energy of the fuel inputs
find_fuel_efficiency(d, fuels, energy_out) ==
    LET inputs == SelectSeq(technosphere(d), LAMBDA e : e.product \in fuels)
    IN  RDiv(energy_out, RSum([i \in 1..Len(inputs) |-> inputs[i].amount]))

\* BaseTransformation.find_iam_efficiency_change: the value of the scenario
\* for the technology and region, 1 where it has none
IAM_eff_func(variable, location) ==
    IF efficiency[variable][location] = NaN THEN One ELSE efficiency[variable][location]

\* lines 1622-1625: 1 / IAM_eff_func(variable, location)
scaling_factor(d, technology) ==
    RDiv(One, IAM_eff_func(technology, ecoinvent_to_iam_loc(d.location)))

\* line 1627: float(np.clip(ei_eff * 1 / scaling_factor, 0, 1))
new_efficiency(ei_eff, factor) == clip(RDiv(RMul(ei_eff, One), factor), Zero, One)

\* lines 1629-1637: dataset["log parameters"].update({...})
update_log_parameters(log, ei_eff, new_eff) ==
    SelectSeq(log, LAMBDA kv : kv[1] \notin {"old efficiency", "new efficiency"})
        \o << <<"old efficiency", ei_eff>>, <<"new efficiency", new_eff>> >>

\* wurst.change_exchanges_by_constant_factor: the technosphere and biosphere
\* amounts times the factor
change_exchanges_by_constant_factor(d, factor) ==
    [d EXCEPT !.exchanges =
        [i \in 1..Len(d.exchanges) |->
            IF d.exchanges[i].type \in {"technosphere", "biosphere"}
            THEN [d.exchanges[i] EXCEPT !.amount = RMul(d.exchanges[i].amount, factor)]
            ELSE d.exchanges[i]]]

\* lines 1616-1649: the body of the loop over the matched datasets
rescale_dataset(d, technology) ==
    LET ei_eff == find_fuel_efficiency(d, powerplant_fuels_map(technology), Rat(36, 10))
        factor == scaling_factor(d, technology)
    IN  change_exchanges_by_constant_factor(
            [d EXCEPT !.log = update_log_parameters(d.log, ei_eff, new_efficiency(ei_eff, factor))],
            factor)

\* lines 1602-1651: the technologies one after the other; the lookup of a
\* technology without an efficiency variable raises KeyError at its first dataset
RECURSIVE rescale_pass(_, _, _)
rescale_pass(db, technologies, lines) ==
    IF technologies = <<>> THEN [db |-> db, lines |-> lines, raised |-> ""]
    ELSE LET technology == technologies[1]
             matched == SelectSeq(db, LAMBDA d : is_rescaled(d, technology))
         IN  IF matched # <<>> /\ technology \notin DOMAIN efficiency
             THEN [db |-> db, lines |-> lines, raised |-> "KeyError"]
             ELSE rescale_pass(
                      [i \in 1..Len(db) |->
                          IF is_rescaled(db[i], technology)
                          THEN rescale_dataset(db[i], technology) ELSE db[i]],
                      Tail(technologies),
                      lines \o [i \in 1..Len(matched) |->
                                   <<"updated", matched[i].name, matched[i].location>>])

update_electricity_efficiency ==
    /\ pc \in {"ready", "duplicated"}
    /\ LET pass == rescale_pass(database, rescaled_technologies, <<>>)
       IN  /\ database' = pass.db
           /\ logged' = logged \o pass.lines
           /\ IF pass.raised # ""
              THEN pc' = "failed" /\ error' = pass.raised
              ELSE /\ pc' = IF pc = "ready" THEN "rescaled" ELSE "finished"
                   /\ UNCHANGED error
    /\ UNCHANGED <<system_model, year, losses, electricity_markets, efficiency,
                   production_per_tech, network_loss, modified_datasets, cache,
                   cursor, region_idx, period_idx, tech_suppliers>>

-----------------------------------------------------------------------------
(* Region-Specific Plant Duplicator: create_region_specific_power_plants.  *)

\* lines 1460-1472
techs ==
    {"Biomass CHP CCS", "Biomass ST", "Biomass IGCC CCS", "Biomass IGCC", "Coal IGCC",
     "Coal PC CCS", "Coal CHP CCS", "Coal IGCC CCS", "Gas CHP CCS", "Gas CC CCS",
     "Oil CC CCS"}

\* lines 1474-1490
list_datasets_to_duplicate(db) ==
    {db[i].name : i \in {j \in 1..Len(db) :
        \E k \in 1..Len(powerplant_technologies) :
            /\ powerplant_technologies[k] \in techs
            /\ db[j].name \in powerplant_map(powerplant_technologies[k])}}
    \cup {"Wood chips, burned in power plant", "Natural gas, in ATR ", "Hard coal, burned",
          "Lignite, burned", "CO2 storage/", "CO2 capture/"}

\* lines 1492-1497
is_duplicated(db, d) == \E n \in list_datasets_to_duplicate(db) : Contains(d.name, n)

\* BaseTransformation.fetch_proxies: one copy of the dataset per region
proxy(d, region) ==
    [d EXCEPT !.location = region,
              !.exchanges = [i \in 1..Len(d.exchanges) |->
                                IF d.exchanges[i].type = "production"
                                THEN [d.exchanges[i] EXCEPT !.location = region]
                                ELSE d.exchanges[i]]]

fetch_proxies(db, name, ref_prod) ==
    LET d == db[CHOOSE i \in 1..Len(db) : db[i].name = name /\ db[i].product = ref_prod]
    IN  [i \in 1..Len(regions) |-> proxy(d, regions[i])]

\* lines 1514-1518
providers(plant) ==
    SelectSeq(plant.exchanges, LAMBDA e : e.type = "technosphere" /\ e.unit = "kilowatt hour")

\* lines 1521-1527: the datasets ws.get_one chooses from
provider_ds(db, provider) ==
    SelectSeq(db, LAMBDA d : /\ d.name = provider.name
                             /\ d.location = provider.location
                             /\ d.product = provider.product
                             /\ d.unit = provider.unit)

\* the exception of ws.get_one, "" when it finds one dataset for each provider
get_one_raised(db, plant) ==
    IF \E i \in 1..Len(providers(plant)) : provider_ds(db, providers(plant)[i]) = <<>>
    THEN "NoResults"
    ELSE IF \E i \in 1..Len(providers(plant)) : Len(provider_ds(db, providers(plant)[i])) > 1
    THEN "MultipleResults"
    ELSE ""

\* lines 1528-1534: sum(f["amount"] * provider["amount"]) over the carbon
\* dioxide flows of the provider
provider_co2(db, provider) ==
    LET flows == SelectSeq(biosphere(provider_ds(db, provider)[1]),
                           LAMBDA f : Contains(f.name, "Carbon dioxide"))
    IN  RSum([i \in 1..Len(flows) |-> RMul(flows[i].amount, provider.amount)])

co2_amount(db, plant) ==
    RSum([i \in 1..Len(providers(plant)) |-> provider_co2(db, providers(plant)[i])])

\* the share of the carbon dioxide of the providers that is captured
captured_share_all == One

\* lines 1541 and 1548: co2_amount * 0.9
captured_share == Rat(9, 10)

\* lines 1536-1548
is_captured_flow(exc) ==
    \/ exc.type = "technosphere" /\ exc.unit = "kilogram" /\ StartsWith(exc.name, "CO2 capture")
    \/ exc.type = "biosphere" /\ exc.unit = "kilogram" /\ StartsWith(exc.name, "Carbon dioxide")

adjust_capture(db, plant) ==
    [plant EXCEPT !.exchanges =
        [i \in 1..Len(plant.exchanges) |->
            IF is_captured_flow(plant.exchanges[i])
            THEN [plant.exchanges[i] EXCEPT !.amount = RMul(co2_amount(db, plant), captured_share)]
            ELSE plant.exchanges[i]]]

\* line 1510
is_chp_ccs(d) == Contains(powerplant_map_rev(d.name), "CHP CCS")

\* lines 1498-1551: the new plants of one template
new_plants(db, d) ==
    LET copies == fetch_proxies(db, d.name, d.product)
    IN  IF is_chp_ccs(d)
        THEN [i \in 1..Len(copies) |-> adjust_capture(db, copies[i])]
        ELSE copies

\* the exception of the loop: that of the first CHP CCS copy with a provider
\* ws.get_one does not find
RECURSIVE duplication_raised(_, _)
duplication_raised(db, templates) ==
    IF templates = <<>> THEN ""
    ELSE LET copies == fetch_proxies(db, templates[1].name, templates[1].product)
             failing == {i \in 1..Len(copies) : get_one_raised(db, copies[i]) # ""}
         IN  IF is_chp_ccs(templates[1]) /\ failing # {}
             THEN get_one_raised(db, copies[CHOOSE i \in failing : \A j \in failing : i <= j])
             ELSE duplication_raised(db, Tail(templates))

RECURSIVE all_plants(_, _)
all_plants(db, templates) ==
    IF templates = <<>> THEN <<>>
    ELSE new_plants(db, templates[1]) \o all_plants(db, Tail(templates))

\* the duplicator indexing the plants it adds
create_region_specific_power_plants_indexed ==
    /\ pc \in {"ready", "rescaled"}
    /\ LET templates == SelectSeq(database, LAMBDA d : is_duplicated(database, d))
           raised == duplication_raised(database, templates)
           plants == all_plants(database, templates)
       IN  IF raised # ""
           THEN /\ pc' = "failed"
                /\ error' = raised
                /\ UNCHANGED <<database, logged, modified_datasets, production_per_tech>>
           ELSE /\ pc' = IF pc = "ready" THEN "duplicated" ELSE "finished"
                /\ database' = database \o plants
                /\ production_per_tech' = get_production_per_tech_dict(database \o plants)
                /\ logged' = logged \o [i \in 1..Len(plants) |->
                                           <<"created", plants[i].name, plants[i].location>>]
                /\ modified_datasets' =
                       [modified_datasets EXCEPT
                           !.created = @ \o [i \in 1..Len(plants) |-> ledger_entry(plants[i])]]
                /\ UNCHANGED error
    /\ UNCHANGED <<system_model, year, losses, electricity_markets, efficiency,
                   network_loss, cache, cursor, region_idx,
                   period_idx, tech_suppliers>>

create_region_specific_power_plants ==
    /\ pc \in {"ready", "rescaled"}
    /\ LET templates == SelectSeq(database, LAMBDA d : is_duplicated(database, d))
           raised == duplication_raised(database, templates)
           plants == all_plants(database, templates)
       IN  IF raised # ""
           THEN /\ pc' = "failed"
                /\ error' = raised
                /\ UNCHANGED <<database, logged, modified_datasets>>
           ELSE /\ pc' = IF pc = "ready" THEN "duplicated" ELSE "finished"
                /\ database' = database \o plants
                /\ logged' = logged \o [i \in 1..Len(plants) |->
                                           <<"created", plants[i].name, plants[i].location>>]
                /\ modified_datasets' =
                       [modified_datasets EXCEPT
                           !.created = @ \o [i \in 1..Len(plants) |-> ledger_entry(plants[i])]]
                /\ UNCHANGED error
    /\ UNCHANGED <<system_model, year, losses, electricity_markets, efficiency,
                   production_per_tech, network_loss, cache, cursor, region_idx,
                   period_idx, tech_suppliers>>

-----------------------------------------------------------------------------
(* The runs of the passes: a database of fuelled plants, templates and    *)
(* old markets, an efficiency table, and after the construction either the *)
(* duplicator and the rescaler in either order, or the market cascade.     *)

wood_chp == "electricity production, at wood CHP, post, storage"
wood_st == "electricity production, at wood steam turbine"
capture_process == "CO2 capture/at wood CHP"

\* a coal plant burning `fuel` MJ of hard coal per kilowatt hour
FuelledPlant(location, fuel) ==
    Dataset("electricity production, hard coal", "electricity, high voltage", location,
            "kilowatt hour",
            << [Exchange("production", "electricity production, hard coal",
                         "electricity, high voltage", "kilowatt hour", location, One)
                   EXCEPT !.pv = <<80>>],
               Exchange("technosphere", "market for hard coal", "hard coal", "megajoule",
                        "RoW", fuel),
               Exchange("technosphere", "market for water, decarbonised", "water, decarbonised",
                        "kilogram", "RoW", Rat(3, 2)),
               Exchange("biosphere", "Carbon dioxide, fossil", "", "kilogram", "", One),
               Exchange("biosphere", "Carbon dioxide, non-fossil", "", "kilogram", "", Rat(1, 4)),
               Exchange("biosphere", "Methane, fossil", "", "kilogram", "", Rat(1, 100)) >>)

\* a biomass plant of RER drawing power from the coal plant of `source` and
\* from the hydro plant, with a capture input and a carbon dioxide emission
Template(name, source) ==
    Dataset(name, "electricity, high voltage", "RER", "kilowatt hour",
            << Exchange("production", name, "electricity, high voltage", "kilowatt hour",
                        "RER", One),
               Exchange("technosphere", "electricity production, hard coal",
                        "electricity, high voltage", "kilowatt hour", source, Rat(1, 10)),
               Exchange("technosphere", "electricity production, hydro, reservoir",
                        "electricity, high voltage", "kilowatt hour", "RoW", Rat(1, 20)),
               Exchange("technosphere", capture_process, "CO2, captured", "kilogram",
                        "RER", Rat(1, 2)),
               Exchange("technosphere", "market for wood chips", "wood chips", "kilogram",
                        "RER", Rat(2, 1)),
               Exchange("biosphere", "Carbon dioxide, non-fossil", "", "kilogram", "",
                        Rat(1, 2)),
               Exchange("biosphere", "Carbon monoxide, non-fossil", "", "kilogram", "",
                        Rat(1, 100)) >>)

FuelOptions == {Rat(72, 7), Rat(9, 2)}
SourceOptions == {"DE", "CH"}

PlantDatabase(fuel, source) ==
    << FuelledPlant("DE", fuel),
       FuelledPlant("CN", Rat(10, 1)),
       PlantDataset(PlantSlots[5], <<"pv", 50>>),
       Template(wood_chp, source),
       Template(wood_st, "DE"),
       Dataset(capture_process, "CO2, captured", "RER", "kilogram",
               << Exchange("production", capture_process, "CO2, captured", "kilogram",
                           "RER", One),
                  Exchange("technosphere", "electricity production, hard coal",
                           "electricity, high voltage", "kilowatt hour", "DE", Rat(1, 5)) >>),
       PlantDataset(PlantSlots[8], <<"nopv">>) >>
    \o BaseMarkets

EfficiencyOptions == {Rat(8, 7), Rat(3, 2), Rat(7, 8), NaN}

\* no efficiency variable, or one for coal power (and one for a technology
\* that is in no market mix)
EfficiencyTables ==
    { <<>> } \cup
    {[v \in dom |-> [r \in Range(regions) |-> IF r = "EUR" THEN x ELSE y]] :
        dom \in {{"Coal PC"}, {"Coal PC", "Biomass ST"}},
        x \in EfficiencyOptions, y \in {One, NaN}}

PlantInit ==
    /\ system_model \in Modes
    /\ losses = DefaultLosses
    /\ electricity_markets = DefaultScenario
    /\ efficiency \in EfficiencyTables
    /\ \E fuel \in FuelOptions, source \in SourceOptions :
           database = PlantDatabase(fuel, source)
    /\ year \in RunYears
    /\ pc = "new"
    /\ error = ""
    /\ production_per_tech = <<>>
    /\ network_loss = <<>>
    /\ modified_datasets = [created |-> <<>>, emptied |-> <<>>]
    /\ cache = {}
    /\ logged = <<>>
    /\ cursor = 0
    /\ region_idx = 0
    /\ period_idx = 0
    /\ tech_suppliers = <<>>

PlantNext ==
    \/ Construct
    \/ create_region_specific_power_plants
    \/ update_electricity_efficiency
    \/ StartUpdate
    \/ EmptyOne
    \/ FinishEmptying
    \/ HVRegion
    \/ HVMarket
    \/ MVMarket
    \/ LVRegion
    \/ LVMarket

PlantSpec == PlantInit /\ [][PlantNext]_vars

-----------------------------------------------------------------------------
(* Properties.                                                             *)

\* only the three market builders set the "distribution loss" log parameter
is_cascade_market(d) == d.log # <<>> /\ d.log[1][1] = "distribution loss"

created_markets == SelectSeq(database, is_cascade_market)

markets_of(voltage) ==
    SelectSeq(created_markets, LAMBDA d : d.product = "electricity, " \o voltage)

AllPeriods == {0, 20, 40, 60}

Voltages == <<"high voltage", "medium voltage", "low voltage">>

coal == "electricity production, hard coal"

\* the technosphere exchanges of a dataset towards a process name and location
flows_to(d, name, location) ==
    SelectSeq(technosphere(d), LAMBDA e : e.name = name /\ e.location = location)

\* C1: for every technology of the region being built, the allocation of the
\* high and low voltage builders is empty or its shares sum to exactly 1
C1_SharesSumToOne ==
    \A t \in DOMAIN tech_suppliers :
        tech_suppliers[t] = <<>> \/ RSum(shares_of(tech_suppliers[t])) = One

\* two indexed coal suppliers of 2000 and 1e-9 units: the small one fell under
\* the cutoff and the other was rescaled to 1
C1_Witness ==
    /\ pc = "high"
    /\ regions[region_idx] = "EUR"
    /\ <<coal, "DE">> \in DOMAIN production_per_tech
    /\ <<coal, "FR">> \in DOMAIN production_per_tech
    /\ production_per_tech[<<coal, "DE">>] = 2000
    /\ production_per_tech[<<coal, "FR">>] = MinVolume
    /\ "Coal PC" \in DOMAIN tech_suppliers
    /\ Len(tech_suppliers["Coal PC"]) = 1
    /\ tech_suppliers["Coal PC"][1][1].location = "DE"
    /\ tech_suppliers["Coal PC"][1][2] = One

\* C2: every market created by the cascade has exactly one production flow,
\* of amount exactly 1
C2_ProductionIsOne ==
    LET markets == created_markets
    IN  \A i \in 1..Len(markets) :
            LET flows == production(markets[i])
            IN  /\ Len(flows) = 1
                /\ flows[1].amount = One
                /\ flows[1].coef = "1"

\* a completed run over four periods: 2 regions x 3 tiers x 4 periods
C2_Witness ==
    /\ pc = "done"
    /\ system_model # "consequential"
    /\ Len(created_markets) = 24

all_absent(region) ==
    \A loc \in Range(iam_to_ecoinvent_location(region)) : loc \notin DOMAIN losses

loss_fractions(profile) ==
    {profile.high.transf_loss, profile.high.distr_loss, profile.medium.transf_loss,
     profile.medium.distr_loss, profile.low.transf_loss, profile.low.distr_loss}

\* C3: once constructed, the loss fractions of every region are >= 0, and a
\* region whose locations are all absent from the loss table has a loss
\* profile, with every fraction 0, instead of a failure
C3_LossModelTotal ==
    pc # "new" =>
        \A r \in Range(regions) :
            /\ r \in DOMAIN network_loss =>
                   \A x \in loss_fractions(network_loss[r]) : RGe(x, Zero)
            /\ all_absent(r) =>
                   /\ pc # "failed"
                   /\ r \in DOMAIN network_loss
                   /\ loss_fractions(network_loss[r]) = {Zero}

\* the amounts a high voltage market must hold for the allocations it was
\* built from: mix share x supplier share / (1 - residential solar share)
HighVoltageFlowsAsClaimed(market, region, period, allocations) ==
    LET mix == electricity_mix(region, period)
        solar == mix_sum(mix_variables, mix, residential_solar)
    IN  \A t \in Range(high_voltage_technologies) :
            RGt(mix[t], Zero) =>
                \A i \in 1..Len(allocations[t]) :
                    LET flows == flows_to(market, allocations[t][i][1].name,
                                          allocations[t][i][1].location)
                    IN  /\ Len(flows) = 1
                        /\ flows[1].coef = "1"
                        /\ flows[1].amount =
                               RDiv(RMul(mix[t], allocations[t][i][2]), RSub(One, solar))

\* C4: a step that appends a high voltage market gives it, for every
\* technology other than residential solar with mix share > 0 and every
\* supplier of its allocation, one technosphere flow of amount
\* (mix share) x (supplier share) / (1 - residential solar share)
C4_HighVoltageFlows ==
    [][(pc = "high" /\ period_idx >= 1) =>
          HighVoltageFlowsAsClaimed(database'[Len(database')], regions[region_idx],
                                    high_voltage_periods[period_idx], tech_suppliers)]_vars

\* mix share 0.3, suppliers of 80 and 20, no residential solar: 0.24 and 0.06
C4_Witness ==
    \E i \in 1..Len(database) :
        /\ database[i].name = "market group for electricity, high voltage"
        /\ database[i].location = "EUR"
        /\ electricity_mix("EUR", 0)["Coal PC"] = <<3, 10>>
        /\ electricity_mix("EUR", 0)["Solar PV Residential"] = Zero
        /\ production_per_tech[<<coal, "DE">>] = 80
        /\ production_per_tech[<<coal, "FR">>] = 20
        /\ Len(flows_to(database[i], coal, "DE")) = 1
        /\ flows_to(database[i], coal, "DE")[1].amount = <<6, 25>>
        /\ Len(flows_to(database[i], coal, "FR")) = 1
        /\ flows_to(database[i], coal, "FR")[1].amount = <<3, 50>>
        /\ RAdd(<<6, 25>>, <<3, 50>>) = <<3, 10>>

period_of(d, voltage) == CHOOSE p \in AllPeriods : d.name = market_name(voltage, p)

\* C5: every medium voltage market has exactly one input from the high
\* voltage market, that of its own region, of amount 1 + the region's medium
\* voltage distribution loss
C5_MediumVoltageInput ==
    \A d \in Range(markets_of("medium voltage")) :
        LET inputs == SelectSeq(technosphere(d),
                                LAMBDA e : e.product = "electricity, high voltage")
        IN  /\ Len(inputs) = 1
            /\ inputs[1].location = d.location
            /\ inputs[1].name = market_name("high voltage", period_of(d, "medium voltage"))
            /\ inputs[1].coef = "1"
            /\ inputs[1].amount = RAdd(One, network_loss[d.location].medium.distr_loss)

\* distribution loss 0.05 and transformation loss 0.02: input 1.05, loop 0.02
C5_Witness ==
    \E i \in 1..Len(database) :
        /\ database[i].name = "market group for electricity, medium voltage"
        /\ database[i].location = "EUR"
        /\ network_loss["EUR"].medium.distr_loss = <<1, 20>>
        /\ network_loss["EUR"].medium.transf_loss = <<1, 50>>
        /\ flows_to(database[i], "market group for electricity, high voltage", "EUR")[1].amount
               = <<21, 20>>
        /\ flows_to(database[i], "market group for electricity, medium voltage", "EUR")[1].amount
               = <<1, 50>>

solar_names == UNION {powerplant_map(t) : t \in residential_solar}

\* the amounts a low voltage market must hold for the allocations it was
\* built from
LowVoltageFlowsAsClaimed(market, region, period, allocations) ==
    LET mix == electricity_mix(region, period)
        solar == mix_sum(mix_variables, mix, residential_solar)
        inputs == SelectSeq(technosphere(market),
                            LAMBDA e : e.product = "electricity, medium voltage")
        direct == SelectSeq(technosphere(market), LAMBDA e : e.name \in solar_names)
    IN  /\ Len(inputs) = 1
        /\ inputs[1].name = market_name("medium voltage", period)
        /\ inputs[1].location = region
        /\ inputs[1].coef = "1"
        /\ inputs[1].amount =
               RMul(RSub(One, solar), RAdd(One, network_loss[region].low.distr_loss))
        /\ \A t \in residential_solar :
               RGt(mix[t], Zero) =>
                   \A i \in 1..Len(allocations[t]) :
                       LET flows == flows_to(market, allocations[t][i][1].name,
                                             allocations[t][i][1].location)
                       IN  /\ Len(flows) = 1
                           /\ flows[1].coef = "1"
                           /\ flows[1].amount = RMul(mix[t], allocations[t][i][2])
        /\ RSum([i \in 1..Len(direct) |-> direct[i].amount]) = solar

\* C6 as stated: a step that appends a low voltage market gives it one input
\* from the medium voltage market of amount (1 - residential solar share) x
\* (1 + low voltage distribution loss) and one input per residential solar
\* supplier of amount (solar mix share) x (supplier share); the solar inputs
\* sum to the residential solar share
C6_AsStated ==
    [][(pc = "low" /\ period_idx >= 1) =>
          LowVoltageFlowsAsClaimed(database'[Len(database')], regions[region_idx],
                                   low_voltage_periods[period_idx], tech_suppliers)]_vars

\* as LowVoltageFlowsAsClaimed, with the contributing share in place of the
\* share: a residential solar technology contributes its share when it is > 0
\* and nothing otherwise
LowVoltageFlowsAsBuilt(market, region, period, allocations) ==
    LET mix == electricity_mix(region, period)
        contributing == {t \in residential_solar : RGt(mix[t], Zero)}
        used == mix_sum(mix_variables, mix, contributing)
        supplied == {t \in contributing : allocations[t] # <<>>}
        inputs == SelectSeq(technosphere(market),
                            LAMBDA e : e.product = "electricity, medium voltage")
        direct == SelectSeq(technosphere(market), LAMBDA e : e.name \in solar_names)
    IN  /\ Len(inputs) = 1
        /\ inputs[1].name = market_name("medium voltage", period)
        /\ inputs[1].location = region
        /\ inputs[1].coef = "1"
        /\ inputs[1].amount =
               RMul(RSub(One, used), RAdd(One, network_loss[region].low.distr_loss))
        /\ \A t \in contributing :
               \A i \in 1..Len(allocations[t]) :
                   LET flows == flows_to(market, allocations[t][i][1].name,
                                         allocations[t][i][1].location)
                   IN  /\ Len(flows) = 1
                       /\ flows[1].coef = "1"
                       /\ flows[1].amount = RMul(mix[t], allocations[t][i][2])
        /\ RSum([i \in 1..Len(direct) |-> direct[i].amount])
               = mix_sum(mix_variables, mix, supplied)

\* C6: a step that appends a low voltage market gives it one input from the
\* medium voltage market of amount (1 - s) x (1 + low voltage distribution
\* loss), s the sum of the residential solar shares that are > 0, and, for a
\* residential solar technology of share > 0, one input per supplier of amount
\* (solar mix share) x (supplier share); the solar inputs sum to the shares
\* > 0 of the technologies whose allocation is not empty
C6_LowVoltageFlows ==
    [][(pc = "low" /\ period_idx >= 1) =>
          LowVoltageFlowsAsBuilt(database'[Len(database')], regions[region_idx],
                                 low_voltage_periods[period_idx], tech_suppliers)]_vars

photovoltaic == "electricity production, photovoltaic, 3kWp"

\* solar share 0.2 from suppliers of 30 and 10: 0.15 and 0.05 directly, and
\* 0.8 x (1 + loss) from the medium voltage market
C6_Witness ==
    \E i \in 1..Len(database) :
        /\ database[i].name = "market group for electricity, low voltage"
        /\ database[i].location = "EUR"
        /\ is_cascade_market(database[i])
        /\ electricity_mix("EUR", 0)["Solar PV Residential"] = <<1, 5>>
        /\ RGt(network_loss["EUR"].low.distr_loss, Zero)
        /\ flows_to(database[i], photovoltaic, "DE")[1].amount = <<3, 20>>
        /\ flows_to(database[i], photovoltaic, "FR")[1].amount = <<1, 20>>
        /\ flows_to(database[i], "market group for electricity, medium voltage", "EUR")[1].amount
               = RMul(<<4, 5>>, RAdd(One, network_loss["EUR"].low.distr_loss))

\* no technosphere exchange of the market goes to a plant of a technology of
\* `technologies` whose mix share is exactly 0
NoFlowForZeroShare(market, region, period, technologies) ==
    \A t \in Range(technologies) :
        electricity_mix(region, period)[t] = Zero =>
            ~ \E i \in 1..Len(technosphere(market)) :
                  technosphere(market)[i].name \in powerplant_map(t)

\* C7: a step that appends a high voltage (low voltage) market gives it no
\* technosphere flow for a technology other than residential solar (for
\* residential solar) whose mix share is exactly 0, whatever its allocation
C7_ZeroShareNoFlow ==
    [][/\ (pc = "high" /\ period_idx >= 1) =>
              NoFlowForZeroShare(database'[Len(database')], regions[region_idx],
                                 high_voltage_periods[period_idx], high_voltage_technologies)
       /\ (pc = "low" /\ period_idx >= 1) =>
              NoFlowForZeroShare(database'[Len(database')], regions[region_idx],
                                 low_voltage_periods[period_idx], low_voltage_technologies)]_vars

\* coal has suppliers in the region and a share of 0 in period 0: the market
\* just appended holds no coal input
C7_Witness ==
    /\ pc = "high"
    /\ regions[region_idx] = "EUR"
    /\ period_idx = 2
    /\ tech_suppliers["Coal PC"] # <<>>
    /\ electricity_mix("EUR", 0)["Coal PC"] = Zero
    /\ database[Len(database)].name = "market group for electricity, high voltage"
    /\ database[Len(database)].location = "EUR"
    /\ ~ \E i \in 1..Len(technosphere(database[Len(database)])) :
             technosphere(database[Len(database)])[i].name = coal

voltage_index(d) == CHOOSE v \in 1..3 : d.product = "electricity, " \o Voltages[v]

\* C8: every input a created market takes from a market of the cascade is in
\* the market's own region and of its own period: the market itself (its loss
\* loop) or the market one tier up; medium and low voltage markets have
\* exactly one input from the tier above
C8_PeriodMatched ==
    \A d \in Range(created_markets) :
        LET v == voltage_index(d)
            p == period_of(d, Voltages[v])
            chain == SelectSeq(technosphere(d),
                               LAMBDA e : StartsWith(e.name, "market group for electricity"))
            upstream == SelectSeq(chain, LAMBDA e : e.name # d.name)
        IN  /\ \A k \in 1..Len(chain) : chain[k].location = d.location
            /\ Len(upstream) = (IF v = 1 THEN 0 ELSE 1)
            /\ \A k \in 1..Len(upstream) :
                   /\ upstream[k].name = market_name(Voltages[v - 1], p)
                   /\ upstream[k].product = "electricity, " \o Voltages[v - 1]

\* the 20-year markets of CHA: low fed from medium, medium fed from high
C8_Witness ==
    \E i, j \in 1..Len(database) :
        /\ database[i].name = market_name("low voltage", 20)
        /\ database[i].location = "CHA"
        /\ Len(flows_to(database[i], market_name("medium voltage", 20), "CHA")) = 1
        /\ database[j].name = market_name("medium voltage", 20)
        /\ database[j].location = "CHA"
        /\ Len(flows_to(database[j], market_name("high voltage", 20), "CHA")) = 1

allowed_periods == IF system_model = "consequential" THEN {0} ELSE AllPeriods

\* the tier, period and region of every created market, in creation order
built ==
    LET markets == created_markets
    IN  [i \in 1..Len(markets) |->
            LET v == voltage_index(markets[i])
            IN  <<v, period_of(markets[i], Voltages[v]), markets[i].location>>]

\* the periods of the markets of a tier created for a region
built_periods(v, region) == {p \in AllPeriods : <<v, p, region>> \in Range(built)}

\* the tiers whose builder has returned
finished_tiers ==
    IF pc = "medium" THEN {1} ELSE IF pc = "low" THEN {1, 2}
    ELSE IF pc = "done" THEN {1, 2, 3} ELSE {}

\* C9: a market is created once, for period 0 only in consequential mode and
\* for a period of {0, 20, 40, 60} otherwise; a tier whose builder has
\* returned holds exactly these periods for every region, so the three tiers
\* of a completed run hold the same periods
C9_Periods ==
    LET b == built
        keys == Range(b)
    IN  /\ \A k \in keys : k[2] \in allowed_periods
        /\ Cardinality(keys) = Len(b)
        /\ \A v \in finished_tiers : \A r \in Range(regions) :
               {k[2] : k \in {x \in keys : x[1] = v /\ x[3] = r}} = allowed_periods

\* a completed consequential run: one market per tier and region
C9_Witness ==
    /\ pc = "done"
    /\ system_model = "consequential"
    /\ Len(created_markets) = 3 * Len(regions)
    /\ \A v \in 1..3 : \A r \in Range(regions) : built_periods(v, r) = {0}

positions(voltage) ==
    {i \in 1..Len(database) :
        is_cascade_market(database[i]) /\ database[i].product = "electricity, " \o voltage}

\* C10: once a market exists, every old market has been emptied and the
\* loss profile and the production index have been computed; all high
\* voltage markets precede the first medium voltage market and all medium
\* voltage markets the first low voltage market
C10_Order ==
    LET high == positions("high voltage")
        medium == positions("medium voltage")
        low == positions("low voltage")
        tier == Len(regions) * Cardinality(allowed_periods)
    IN  (high \cup medium \cup low) # {} =>
            /\ \A i \in 1..Len(database) :
                   (~is_cascade_market(database[i]) /\ is_to_empty(database[i]))
                       => database[i].has_downstream_consumer = "False"
            /\ pc # "new"
            /\ DOMAIN network_loss = Range(regions)
            /\ DOMAIN production_per_tech # {}
            /\ \A i \in high : \A j \in medium : i < j
            /\ \A i \in medium : \A j \in low : i < j
            /\ medium # {} => Cardinality(high) = tier
            /\ low # {} => Cardinality(medium) = tier

\* the low voltage builder at work after three old markets were emptied and
\* eight high and eight medium voltage markets were appended
C10_Witness ==
    /\ pc = "low"
    /\ Len(modified_datasets.emptied) = 3
    /\ Cardinality(positions("high voltage")) = 8
    /\ Cardinality(positions("medium voltage")) = 8
    /\ Cardinality(positions("low voltage")) >= 1

\* the five scopes of a region, in the order of the claim
claimed_scopes(region) ==
    << {region}, Range(iam_to_ecoinvent_location(region)), {"RER"}, {"RoW"}, {"CH"} >>

\* the kilowatt hour electricity producers of a technology in a set of locations
scope_matches(technology, locations) ==
    SelectSeq(database, LAMBDA d :
        /\ d.unit = "kilowatt hour"
        /\ d.location \in locations
        /\ d.name \in powerplant_map(technology)
        /\ Contains(d.product, "electricity"))

\* the scopes that hold a producer of the technology
matching_scopes(region, technology) ==
    {k \in 1..5 : scope_matches(technology, claimed_scopes(region)[k]) # <<>>}

first_scope(region, technology) ==
    CHOOSE k \in matching_scopes(region, technology) :
        \A j \in matching_scopes(region, technology) : k <= j

\* the allocation of a technology is drawn from the matches of the first scope
\* that has any, and from all of them
ResolvedAsClaimed(region, technology, allocation) ==
    IF matching_scopes(region, technology) = {} THEN allocation = <<>>
    ELSE LET scope == claimed_scopes(region)[first_scope(region, technology)]
         IN  /\ \A i \in 1..Len(allocation) : allocation[i][1].location \in scope
             /\ allocation = allocate(scope_matches(technology, scope))

\* C11: a step that resolves the suppliers of a region takes, for every
\* technology, the matches of the first of the scopes [region], native
\* locations, [RER], [RoW], [CH] that has a match, and nothing of a later one
C11_FirstScope ==
    [][/\ (pc = "high" /\ period_idx = 0 /\ pc' = "high") =>
              \A t \in Range(high_voltage_technologies) :
                  ResolvedAsClaimed(regions[region_idx], t, tech_suppliers'[t])
       /\ (pc = "low" /\ period_idx = 0 /\ pc' = "low") =>
              \A t \in Range(low_voltage_technologies) :
                  ResolvedAsClaimed(regions[region_idx], t, tech_suppliers'[t])]_vars

\* coal plants in DE and in RoW: only the native one supplies EUR, while
\* hydro, found nowhere before, comes from RoW
C11_Witness ==
    /\ pc = "high"
    /\ regions[region_idx] = "EUR"
    /\ period_idx = 1
    /\ scope_matches("Coal PC", {"DE"}) # <<>>
    /\ scope_matches("Coal PC", {"RoW"}) # <<>>
    /\ tech_suppliers["Coal PC"] # <<>>
    /\ \A i \in 1..Len(tech_suppliers["Coal PC"]) :
           tech_suppliers["Coal PC"][i][1].location = "DE"
    /\ first_scope("EUR", "Hydro") = 4
    /\ tech_suppliers["Hydro"][1][1].location = "RoW"

\* the technologies of a tier for which no scope of the region has a producer
exhausted(region, technologies) ==
    {t \in Range(technologies) : matching_scopes(region, t) = {}}

\* a resolving step of a tier fails when a technology is exhausted and the
\* mode is not consequential, and otherwise goes on without the technology
ExhaustionAsClaimed(tier, technologies) ==
    (pc = tier /\ period_idx = 0) =>
        IF exhausted(regions[region_idx], technologies) # {} /\ system_model # "consequential"
        THEN pc' = "failed" /\ error' = "IndexError"
        ELSE /\ pc' = tier
             /\ error' = error
             /\ \A t \in exhausted(regions[region_idx], technologies) :
                    tech_suppliers'[t] = <<>>

\* C12: when the five scopes hold no supplier of a technology, the build
\* fails unless the mode is consequential, where the technology is left out
\* and the build goes on; so for the high and for the low voltage builder
C12_Exhaustion ==
    [][/\ ExhaustionAsClaimed("high", high_voltage_technologies)
       /\ ExhaustionAsClaimed("low", low_voltage_technologies)]_vars

\* the volume the production index holds for a dataset, 0 without an entry
volume_in_index(d) ==
    IF <<d.name, d.location>> \in DOMAIN production_per_tech
    THEN production_per_tech[<<d.name, d.location>>] ELSE 0

\* the shares of the candidates of a technology: equal when their volumes sum
\* to zero, and then the allocation keeps every candidate with that share
SharesAsClaimed(region, technology) ==
    LET list == scope_matches(technology,
                              claimed_scopes(region)[first_scope(region, technology)])
        n == Len(list)
        volumes == [i \in 1..n |-> volume_in_index(list[i])]
        sum[i \in 0..n] == IF i = 0 THEN 0 ELSE sum[i - 1] + volumes[i]
    IN  /\ \A i \in 1..n :
               get_production_weighted_share(list[i], list)
                   = (IF sum[n] = 0 THEN <<1, n>> ELSE Rat(volumes[i], sum[n]))
        /\ sum[n] = 0 =>
               /\ pc' = pc
               /\ tech_suppliers'[technology]
                      = [i \in 1..n |-> <<supplier_ref(list[i]), <<1, n>> >>]

\* C13: a step that resolves the suppliers of a region gives each candidate
\* of a technology its volume over the summed volume of the candidates, and
\* 1/n to each of the n candidates, without failing, when that sum is zero
C13_EqualSplit ==
    [][/\ (pc = "high" /\ period_idx = 0) =>
              \A t \in Range(high_voltage_technologies) \ exhausted(regions[region_idx],
                                                                   high_voltage_technologies) :
                  SharesAsClaimed(regions[region_idx], t)
       /\ (pc = "low" /\ period_idx = 0) =>
              \A t \in Range(low_voltage_technologies) \ exhausted(regions[region_idx],
                                                                  low_voltage_technologies) :
                  SharesAsClaimed(regions[region_idx], t)]_vars

\* two coal plants without production exchange, so without index entry: each
\* supplies half
C13_Witness ==
    /\ pc = "high"
    /\ regions[region_idx] = "EUR"
    /\ period_idx = 1
    /\ Len(scope_matches("Coal PC", {"DE", "FR"})) = 2
    /\ <<coal, "DE">> \notin DOMAIN production_per_tech
    /\ <<coal, "FR">> \notin DOMAIN production_per_tech
    /\ Len(tech_suppliers["Coal PC"]) = 2
    /\ tech_suppliers["Coal PC"][1][2] = <<1, 2>>
    /\ tech_suppliers["Coal PC"][2][2] = <<1, 2>>

market_like == {"market group for electricity", "market for electricity",
                "electricity, high voltage, import",
                "electricity, high voltage, production mix"}

preserved == {"cobalt industry", "aluminium industry", "coal mining", "label-certified",
              "renewable energy products", "for reuse in municipal waste incineration",
              "Swiss Federal Railways"}

\* a process present before the run that the claim says is emptied
claimed_emptied(d) ==
    /\ ~is_cascade_market(d)
    /\ d.unit = "kilowatt hour"
    /\ \E n \in market_like : Contains(d.name, n)
    /\ \A n \in preserved : ~Contains(d.name, n)

claimed_voltage(name) ==
    IF Contains(name, "high voltage") THEN "high voltage"
    ELSE IF Contains(name, "medium voltage") THEN "medium voltage" ELSE "low voltage"

\* the flows of an emptied process other than its production flows: one input
\* of 1 from the market group of its voltage at its IAM region
redirected(d) ==
    LET others == SelectSeq(d.exchanges, LAMBDA e : e.type # "production")
    IN  /\ Len(others) = 1
        /\ others[1].type = "technosphere"
        /\ others[1].name = "market group for electricity, " \o claimed_voltage(d.name)
        /\ others[1].location = ecoinvent_to_iam_loc(d.location)
        /\ others[1].amount = One
        /\ others[1].coef = "1"

line_through(y) ==
    LET n == Len(ScenarioYears)
        inside == {i \in 1..(n - 1) : ScenarioYears[i] <= y /\ y <= ScenarioYears[i + 1]}
    IN  IF y < ScenarioYears[1] THEN 1
        ELSE IF y > ScenarioYears[n] THEN n - 1
        ELSE CHOOSE i \in inside : TRUE

\* the signal of a region at year y: v0 + (v1 - v0) x (y - y0) / (y1 - y0)
signal_at(region, variable, y) ==
    LET i == line_through(y)
        y0 == ScenarioYears[i]
        y1 == ScenarioYears[i + 1]
        v0 == electricity_markets[region][y0][variable]
        v1 == electricity_markets[region][y1][variable]
    IN  RAdd(v0, RMul(RSub(v1, v0), Rat(y - y0, y1 - y0)))

RECURSIVE signal_sum(_, _, _, _)
signal_sum(region, variable, first, last) ==
    IF first = last THEN signal_at(region, variable, first)
    ELSE LET mid == (first + last) \div 2
         IN  RAdd(signal_sum(region, variable, first, mid),
                  signal_sum(region, variable, mid + 1, last))

\* the mix of the claim: the sample of the run year for period 0, the mean of
\* the signal over the period + 1 years from the run year otherwise
claimed_mix(region, period) ==
    Table([v \in Range(mix_variables) |->
        IF period = 0 THEN electricity_markets[region][year][v]
        ELSE RDiv(signal_sum(region, v, year, year + period), <<period + 1, 1>>)])

hydro == "electricity production, hydro, reservoir"

\* the mix a market is built from is the mix of the claim, and the hydro
\* input of a high voltage market carries it
MixAsClaimed(market, region, period) ==
    LET mix == claimed_mix(region, period)
    IN  /\ electricity_mix(region, period) = mix
        /\ (market.product = "electricity, high voltage" /\ RGt(mix["Hydro"], Zero)) =>
               /\ Len(flows_to(market, hydro, "RoW")) = 1
               /\ flows_to(market, hydro, "RoW")[1].amount =
                      RDiv(mix["Hydro"],
                           RSub(One, mix_sum(mix_variables, mix, residential_solar)))

\* C19: a step that appends a high or low voltage market builds it from the
\* scenario sample of the run year for period 0 and, for a period N > 0, from
\* the mean over the N + 1 years run year .. run year + N of the linearly
\* interpolated signal, extrapolated past the last scenario year
C19_TemporalAveraging ==
    [][/\ (pc = "high" /\ period_idx >= 1) =>
              MixAsClaimed(database'[Len(database')], regions[region_idx],
                           high_voltage_periods[period_idx])
       /\ (pc = "low" /\ period_idx >= 1) =>
              MixAsClaimed(database'[Len(database')], regions[region_idx],
                           low_voltage_periods[period_idx])]_vars

\* the 40-year market of EUR has just been appended: its window runs past the
\* last scenario year and its mix is not the sample of the run year
C19_Witness ==
    /\ pc = "high"
    /\ regions[region_idx] = "EUR"
    /\ period_idx = 4
    /\ database[Len(database)].name = market_name("high voltage", 40)
    /\ year + 40 > ScenarioYears[Len(ScenarioYears)]
    /\ \E v \in Range(mix_variables) :
           claimed_mix("EUR", 40)[v] # electricity_markets["EUR"][year][v]
    /\ Len(flows_to(database[Len(database)], hydro, "RoW")) = 1

\* the production volume of the last production flow of a dataset, <<>> if none
source_volume(d) == production(d)[Len(production(d))].pv

\* C20: once the production index is built, each of its entries is at least
\* 1e-9, and a power plant whose production flow has no production volume, a
\* zero one or a negative one is indexed with exactly 1e-9; so an indexed
\* supplier never contributes a volume of zero
C20_IndexFloor ==
    pc # "new" =>
        /\ \A k \in DOMAIN production_per_tech : production_per_tech[k] >= MinVolume
        /\ \A i \in 1..Len(database) :
               LET d == database[i]
                   key == <<d.name, d.location>>
               IN  (d.name \in all_powerplant_names /\ production(d) # <<>>) =>
                       /\ key \in DOMAIN production_per_tech
                       /\ volume_in_index(d) > 0
                       /\ (source_volume(d) = <<>> \/ source_volume(d)[1] <= 0) =>
                              production_per_tech[key] = MinVolume

\* coal plants of FR with a negative and of DE with a positive volume: the
\* first is indexed with 1e-9 and supplies 1/81 of the coal power of EUR
C20_Witness ==
    /\ pc = "high"
    /\ regions[region_idx] = "EUR"
    /\ period_idx = 1
    /\ \E i \in 1..Len(database) :
           /\ database[i].name = coal
           /\ database[i].location = "FR"
           /\ production(database[i]) # <<>>
           /\ source_volume(database[i]) = <<-5>>
    /\ production_per_tech[<<coal, "FR">>] = MinVolume
    /\ production_per_tech[<<coal, "DE">>] = 80
    /\ \E i \in 1..Len(tech_suppliers["Coal PC"]) :
           /\ tech_suppliers["Coal PC"][i][1].location = "FR"
           /\ tech_suppliers["Coal PC"][i][2] = Rat(1, 81)

\* the step of a run that is a pass of the rescaler, or of the duplicator
rescaling_step ==
    /\ pc \in {"ready", "duplicated"}
    /\ \/ pc' = (IF pc = "ready" THEN "rescaled" ELSE "finished")
       \/ pc' = "failed" /\ error' = "KeyError"

duplicating_step ==
    /\ pc \in {"ready", "rescaled"}
    /\ pc' \in {"duplicated", "finished"}

\* the value recorded in the log parameters of a dataset
recorded(d, key) ==
    LET values == SelectSeq(d.log, LAMBDA kv : kv[1] = key) IN values[1][2]

\* the technologies of the market mixes whose filters match the dataset
technologies_of(d) ==
    {t \in Range(mix_variables) :
        d.unit = "kilowatt hour" /\ \E n \in powerplant_map(t) : Contains(d.name, n)}

amounts(d) == [j \in 1..Len(d.exchanges) |-> d.exchanges[j].amount]

\* C14: a pass of the rescaler multiplies every technosphere amount of every
\* process it matches by the recorded old efficiency over the recorded new
\* efficiency, whether or not the new efficiency was clamped
C14_RecordedFactor ==
    [][rescaling_step =>
        \A i \in 1..Len(database) :
            (technologies_of(database[i]) \cap DOMAIN efficiency # {} /\ pc' # "failed") =>
                LET old == recorded(database'[i], "old efficiency")
                    new == recorded(database'[i], "new efficiency")
                IN  \A j \in 1..Len(database[i].exchanges) :
                        database[i].exchanges[j].type = "technosphere" =>
                            database'[i].exchanges[j].amount =
                                RMul(database[i].exchanges[j].amount, RDiv(old, new))]_vars

\* the scenario has no usable efficiency target for a process of the technology
no_target(d, technology) ==
    \/ technology \notin DOMAIN efficiency
    \/ efficiency[technology][ecoinvent_to_iam_loc(d.location)] = NaN

template_of(plant) ==
    database[CHOOSE i \in 1..Len(database) :
                 database[i].name = plant.name /\ database[i].product = plant.product]

\* the carbon dioxide a provider of the database emits per unit of its product
emitted_by(name, location) ==
    LET d == database[CHOOSE i \in 1..Len(database) :
                          database[i].name = name /\ database[i].location = location]
        flows == SelectSeq(d.exchanges,
                           LAMBDA f : f.type = "biosphere" /\ Contains(f.name, "Carbon dioxide"))
    IN  RSum([i \in 1..Len(flows) |-> flows[i].amount])

\* S: over the kilowatt hour technosphere inputs of a plant, the emission of
\* the provider times the amount of the input
claimed_S(plant) ==
    LET inputs == SelectSeq(plant.exchanges,
                            LAMBDA e : e.type = "technosphere" /\ e.unit = "kilowatt hour")
    IN  RSum([i \in 1..Len(inputs) |->
                 RMul(emitted_by(inputs[i].name, inputs[i].location), inputs[i].amount)])

DuplicateAsClaimed(plant) ==
    LET template == template_of(plant)
    IN  /\ Len(plant.exchanges) = Len(template.exchanges)
        /\ \A j \in 1..Len(plant.exchanges) :
               LET exc == plant.exchanges[j]
               IN  IF /\ Contains(powerplant_map_rev(plant.name), "CHP CCS")
                      /\ exc.unit = "kilogram"
                      /\ \/ exc.type = "technosphere" /\ StartsWith(exc.name, "CO2 capture")
                         \/ exc.type = "biosphere" /\ StartsWith(exc.name, "Carbon dioxide")
                   THEN exc.amount = RMul(Rat(9, 10), claimed_S(plant))
                   ELSE exc.amount = template.exchanges[j].amount

\* C16: each plant a pass of the duplicator adds has the amounts of its
\* template, except that a combined-heat-and-power carbon-capture plant has
\* its captured and its emitted carbon dioxide set to 0.9 x S
C16_CapturedShare ==
    [][duplicating_step =>
        /\ Len(database') > Len(database)
        /\ \A k \in (Len(database) + 1)..Len(database') : DuplicateAsClaimed(database'[k])]_vars

\* the copies for EUR of the two templates, made from a database whose coal
\* plant of DE emits 1.25 kg per kWh: S = 0.125 for the carbon-capture plant,
\* the steam turbine keeps 0.5
C16_Witness ==
    /\ pc = "duplicated"
    /\ \E k, m \in 1..Len(database) :
           /\ database[k].name = wood_chp
           /\ database[k].location = "EUR"
           /\ database[k].exchanges[4].name = capture_process
           /\ database[k].exchanges[4].amount = Rat(9, 80)
           /\ database[k].exchanges[6].name = "Carbon dioxide, non-fossil"
           /\ database[k].exchanges[6].amount = Rat(9, 80)
           /\ database[k].exchanges[5].amount = Rat(2, 1)
           /\ database[m].name = wood_st
           /\ database[m].location = "EUR"
           /\ database[m].exchanges[4].amount = Rat(1, 2)
           /\ database[m].exchanges[6].amount = Rat(1, 2)

\* the tier of a created market
tier_of(d) == CHOOSE v \in Range(Voltages) : d.product = "electricity, " \o v

\* the suppliers a high or low voltage market of the region draws from for a
\* technology: the allocation of the first scope with a producer
suppliers_of(region, technology) ==
    IF matching_scopes(region, technology) = {} THEN <<>>
    ELSE allocate(scope_matches(technology,
                                claimed_scopes(region)[first_scope(region, technology)]))

\* a market with its whole flow list: the production flow, the loss loop, the
\* input from the tier above for medium and low voltage, and one flow for
\* every supplier of every technology of the tier with a positive share
complete(d) ==
    LET voltage == tier_of(d)
        mix == electricity_mix(d.location, period_of(d, voltage))
        upper == IF voltage = "medium voltage" THEN "electricity, high voltage"
                 ELSE "electricity, medium voltage"
        technologies == IF voltage = "high voltage" THEN high_voltage_technologies
                        ELSE IF voltage = "low voltage" THEN low_voltage_technologies
                        ELSE <<>>
    IN  /\ Len(production(d)) = 1
        /\ Len(flows_to(d, d.name, d.location)) = 1
        /\ voltage # "high voltage" =>
               Len(SelectSeq(technosphere(d), LAMBDA e : e.product = upper)) = 1
        /\ \A t \in Range(technologies) :
               RGt(mix[t], Zero) =>
                   LET suppliers == suppliers_of(d.location, t)
                   IN  \A i \in 1..Len(suppliers) :
                           Len(flows_to(d, suppliers[i][1].name, suppliers[i][1].location)) = 1

\* C21: when the construction of the markets has failed, every market the
\* cascade appended before the failure holds its whole flow list
C21_NoPartialCommit ==
    (pc = "failed" /\ error = "IndexError") =>
        \A d \in Range(created_markets) : complete(d)

\* the low voltage builder fails at CHA after the four markets of EUR: all
\* high and medium voltage markets and those four are in the database
C21_Witness ==
    /\ pc = "failed"
    /\ error = "IndexError"
    /\ system_model # "consequential"
    /\ regions[region_idx] = "CHA"
    /\ Len(markets_of("high voltage")) = 8
    /\ Len(markets_of("medium voltage")) = 8
    /\ Len(markets_of("low voltage")) = 4
    /\ \E d \in Range(markets_of("low voltage")) :
           Len(flows_to(d, "electricity production, photovoltaic, 3kWp", "DE")) = 1

\* the allocation of a technology as claimed: the candidates of the first
\* scope with a producer, without those that have no volume when another has,
\* each with its share of the volume (1/n when there is none); the shares of
\* at least 0.001, divided by their sum
claimed_allocation(region, technology) ==
    LET list == scope_matches(technology,
                              claimed_scopes(region)[first_scope(region, technology)])
        total[i \in 0..Len(list)] ==
            IF i = 0 THEN 0 ELSE total[i - 1] + volume_in_index(list[i])
        sum == total[Len(list)]
        candidates == IF sum = 0 THEN list
                      ELSE SelectSeq(list, LAMBDA d : volume_in_index(d) # 0)
        share(d) == IF sum = 0 THEN <<1, Len(list)>> ELSE Rat(volume_in_index(d), sum)
        kept == SelectSeq(candidates, LAMBDA d : RGe(share(d), <<1, 1000>>))
        kept_sum == RSum([i \in 1..Len(kept) |-> share(kept[i])])
    IN  [i \in 1..Len(kept) |-> <<supplier_ref(kept[i]), RDiv(share(kept[i]), kept_sum)>>]

AllocationsAsClaimed(tier, technologies) ==
    (pc = tier /\ period_idx = 0 /\ pc' = tier) =>
        \A t \in Range(technologies) \ exhausted(regions[region_idx], technologies) :
            tech_suppliers'[t] = claimed_allocation(regions[region_idx], t)

\* C22: a step that resolves the suppliers of a region keeps, for every
\* technology, exactly the candidates with a share of at least 0.001, each
\* with its share over the sum of the kept shares
C22_Cutoff ==
    [][/\ AllocationsAsClaimed("high", high_voltage_technologies)
       /\ AllocationsAsClaimed("low", low_voltage_technologies)]_vars

\* C23: no step changes a market the cascade has appended: it keeps its
\* place, name, location and flows, and is never emptied
C23_CreatedImmutable ==
    [][\A i \in 1..Len(database) :
           is_cascade_market(database[i]) =>
               /\ Len(database') >= i
               /\ database'[i] = database[i]]_vars

\* a completed run that emptied the old markets: the first market created,
\* high voltage of EUR, still has its supplier flows and was not emptied
C23_Witness ==
    /\ pc = "done"
    /\ modified_datasets.emptied # <<>>
    /\ Len(created_markets) >= 6
    /\ created_markets[1].name = market_name("high voltage", 0)
    /\ created_markets[1].location = "EUR"
    /\ created_markets[1].has_downstream_consumer = "unset"
    /\ Len(technosphere(created_markets[1])) >= 2
    /\ is_to_empty(created_markets[1])

\* C24: the loss model and the production index are empty until the
\* construction, and no later step (building markets, duplicating plants,
\* rescaling efficiencies) adds, removes or alters an entry of either
C24_FrameOfIndexAndLosses ==
    [][IF pc = "new"
       THEN network_loss = <<>> /\ production_per_tech = <<>>
       ELSE network_loss' = network_loss /\ production_per_tech' = production_per_tech]_vars

\* after both passes: the copies of the templates are in the database and
\* not in the index, the rescaled coal plant has its volume of 80
C24_Witness ==
    /\ pc = "finished"
    /\ \E k \in 1..Len(database) : database[k].name = wood_chp /\ database[k].location = "EUR"
    /\ <<wood_chp, "RER">> \in DOMAIN production_per_tech
    /\ <<wood_chp, "EUR">> \notin DOMAIN production_per_tech
    /\ database[1].log # <<>>
    /\ production_per_tech[<<database[1].name, "DE">>] = 80
    /\ DOMAIN network_loss = Range(regions)

\* how often a value occurs in a sequence
occurrences(seq, x) == Cardinality({i \in 1..Len(seq) : seq[i] = x})

\* C25: after a completed run every market of a region, tier and period of
\* the run is once in the database and once in the ledger of created
\* datasets, which holds nothing else; every emptied process is once in the
\* ledger of emptied datasets, which holds nothing else
C25_Ledgers ==
    pc = "done" =>
        LET markets == created_markets
            ledger == modified_datasets.created
            emptied == SelectSeq(database, claimed_emptied)
        IN  /\ \A r \in Range(regions), v \in Range(Voltages), p \in allowed_periods :
                   /\ Cardinality({i \in 1..Len(markets) :
                          markets[i].name = market_name(v, p) /\ markets[i].location = r}) = 1
                   /\ occurrences(ledger, <<market_name(v, p), "electricity, " \o v, r,
                                            "kilowatt hour">>) = 1
            /\ Len(markets) = Len(regions) * Len(Voltages) * Cardinality(allowed_periods)
            /\ Len(ledger) = Len(markets)
            /\ \A i \in 1..Len(emptied) :
                   occurrences(modified_datasets.emptied,
                               <<emptied[i].name, emptied[i].product, emptied[i].location,
                                 emptied[i].unit>>) = 1
            /\ Len(modified_datasets.emptied) = Len(emptied)

\* a completed run over four periods that emptied three old markets
C25_Witness ==
    /\ pc = "done"
    /\ system_model # "consequential"
    /\ Len(modified_datasets.created) = 24
    /\ Len(modified_datasets.emptied) = 3
    /\ modified_datasets.created[24]
           = <<market_name("low voltage", 60), "electricity, low voltage", "CHA",
               "kilowatt hour">>

\* the transformation loss of a region at the tier of a product
transformation_loss(region, product) ==
    IF product = "electricity, high voltage" THEN network_loss[region].high.transf_loss
    ELSE IF product = "electricity, medium voltage" THEN network_loss[region].medium.transf_loss
    ELSE network_loss[region].low.transf_loss

\* C26: every created market has exactly one technosphere flow with the name,
\* product and location of its production flow, and the amount of that flow
\* is the transformation loss of its region and tier
C26_SelfLoop ==
    LET markets == created_markets
    IN  \A i \in 1..Len(markets) :
            LET own == production(markets[i])[1]
                loops == SelectSeq(technosphere(markets[i]),
                                   LAMBDA e : /\ e.name = own.name
                                              /\ e.product = own.product
                                              /\ e.location = own.location)
            IN  /\ own.name = markets[i].name
                /\ Len(loops) = 1
                /\ loops[1].coef = "1"
                /\ loops[1].amount = transformation_loss(markets[i].location, own.product)

\* the 20-year markets of EUR: the high voltage one loops 1/40 of its
\* output, the weighted loss of DE and FR, under its own name
C26_Witness ==
    /\ pc = "done"
    /\ network_loss["EUR"].high.transf_loss = <<1, 40>>
    /\ \E d \in Range(markets_of("high voltage")) :
           /\ d.location = "EUR"
           /\ d.name = "market group for electricity, high voltage, 20-year period"
           /\ Len(flows_to(d, d.name, "EUR")) = 1
           /\ flows_to(d, d.name, "EUR")[1].amount = <<1, 40>>
    /\ \E d \in Range(markets_of("low voltage")) :
           /\ d.location = "EUR"
           /\ d.name = "market group for electricity, low voltage, 20-year period"
           /\ Len(flows_to(d, d.name, "EUR")) = 1

\* the efficiency implied by the fuel inputs of a coal plant: 3.6 MJ per
\* kilowatt hour over the energy of the hard coal it burns
implied_efficiency(d) ==
    LET fuel == SelectSeq(d.exchanges,
                          LAMBDA e : e.type = "technosphere" /\ e.product = "hard coal")
    IN  RDiv(Rat(36, 10), RSum([j \in 1..Len(fuel) |-> fuel[j].amount]))

\* C27: a pass of the rescaler leaves every process it matches with an
\* implied efficiency between 0 and 1, that of the clamped target it recorded
C27_ClampedBeforeUse ==
    [][rescaling_step =>
        \A i \in 1..Len(database) :
            (technologies_of(database[i]) \cap DOMAIN efficiency # {} /\ pc' # "failed") =>
                /\ RGe(implied_efficiency(database'[i]), Zero)
                /\ RGe(One, implied_efficiency(database'[i]))
                /\ implied_efficiency(database'[i])
                       = recorded(database'[i], "new efficiency")]_vars

\* the processes of the database an exchange refers to
resolved(e) == {k \in 1..Len(database) :
                   database[k].name = e.name /\ database[k].location = e.location}

\* C28: after a completed run every technosphere flow of a created market or
\* of an emptied process that names a market group for electricity refers to
\* exactly one process of the database
C28_NoDanglingReference ==
    pc = "done" =>
        \A i \in 1..Len(database) :
            (is_cascade_market(database[i]) \/ claimed_emptied(database[i])) =>
                \A e \in Range(technosphere(database[i])) :
                    StartsWith(e.name, "market group for electricity, ") =>
                        Cardinality(resolved(e)) = 1

\* a completed run: the old market of DE draws from the high voltage market
\* of EUR, and the 60-year low voltage market of CHA from the 60-year medium
\* voltage market of CHA
C28_Witness ==
    /\ pc = "done"
    /\ \E i, k \in 1..Len(database) :
           /\ database[i].name = "market for electricity, high voltage"
           /\ database[i].location = "DE"
           /\ Len(flows_to(database[i], market_name("high voltage", 0), "EUR")) = 1
           /\ database[k].name = market_name("high voltage", 0)
           /\ database[k].location = "EUR"
    /\ \E i, k \in 1..Len(database) :
           /\ database[i].name = market_name("low voltage", 60)
           /\ database[i].location = "CHA"
           /\ Len(flows_to(database[i], market_name("medium voltage", 60), "CHA")) = 1
           /\ database[k].name = market_name("medium voltage", 60)
           /\ database[k].location = "CHA"

\* what a high voltage market built from the allocations holds, and what the
\* claim relates it to
sum_report(market, region, period, allocations) ==
    LET mix == Table(electricity_mix(region, period))
        inputs == SelectSeq(technosphere(market), LAMBDA e : e.name # market.name)
        positive == {t \in Range(high_voltage_technologies) : RGt(mix[t], Zero)}
    IN  [total |-> RSum([i \in 1..Len(inputs) |-> inputs[i].amount]),
         supplied |-> mix_sum(mix_variables, mix,
                              {t \in positive : allocations[t] # <<>>}),
         solar |-> mix_sum(mix_variables, mix, residential_solar),
         skipped |-> {t \in positive : allocations[t] = <<>>},
         whole |-> /\ mix_sum(mix_variables, mix, Range(mix_variables)) = One
                   /\ \A t \in Range(high_voltage_technologies) : allocations[t] # <<>>,
         negative |-> {t \in Range(high_voltage_technologies) : RGt(Zero, mix[t])}]

HighVoltageSumAsClaimed(report) ==
    /\ report.total = RDiv(report.supplied, RSub(One, report.solar))
    /\ (system_model = "consequential" /\ report.skipped # {}) => RGt(One, report.total)

\* the market a step of the high voltage builder appends, with its report
appended_report ==
    sum_report(database'[Len(database')], regions[region_idx],
               high_voltage_periods[period_idx], tech_suppliers)

\* C29 as stated: the supplier inputs of the high voltage market a step
\* appends sum to the positive shares of the supplied technologies other than
\* residential solar over (1 - residential solar share); to 1 when the mix
\* sums to 1 and every technology has suppliers; to less than 1 when a
\* technology with a positive share was skipped in consequential mode
C29_AsStated ==
    [][(pc = "high" /\ period_idx >= 1) =>
          LET report == appended_report
          IN  /\ HighVoltageSumAsClaimed(report)
              /\ report.whole => report.total = One]_vars

\* C29: the same, with the sum being 1 when moreover no technology other than
\* residential solar has a negative share
C29_HighVoltageSum ==
    [][(pc = "high" /\ period_idx >= 1) =>
          LET report == appended_report
          IN  /\ HighVoltageSumAsClaimed(report)
              /\ (report.whole /\ report.negative = {}) => report.total = One]_vars

\* the state report of the high voltage market of a region and period 0
report_of(region) ==
    LET d == CHOOSE m \in Range(markets_of("high voltage")) :
                 m.location = region /\ m.name = market_name("high voltage", 0)
    IN  sum_report(d, region, 0, [t \in Range(high_voltage_technologies) |->
                                     suppliers_of(region, t)])

\* a completed consequential run without a coal plant in the scopes of EUR:
\* the market of EUR holds hydro power only, 0.5 / (1 - 0.2), and that of CHA
\* sums to 1
C29_Witness ==
    /\ pc = "done"
    /\ system_model = "consequential"
    /\ report_of("EUR").skipped = {"Coal PC"}
    /\ report_of("EUR").solar = <<1, 5>>
    /\ report_of("EUR").total = <<5, 8>>
    /\ report_of("CHA").whole
    /\ report_of("CHA").skipped = {}
    /\ report_of("CHA").total = One

\* the candidates of a technology, the matches of its first scope, and those of
\* them with an entry in the production index
candidates(region, technology) ==
    scope_matches(technology, claimed_scopes(region)[first_scope(region, technology)])

is_indexed(d) == <<d.name, d.location>> \in DOMAIN production_per_tech

\* the allocation of a technology with candidates: without the candidates that
\* have no entry when another has one, and of all of them, each with 1/n, when
\* none has
IndexedOnly(region, technology, allocation) ==
    LET list == candidates(region, technology)
        n == Len(list)
    IN  IF \E i \in 1..n : is_indexed(list[i])
        THEN \A i \in 1..n : ~is_indexed(list[i]) =>
                 \A k \in 1..Len(allocation) : allocation[k][1] # supplier_ref(list[i])
        ELSE allocation = [i \in 1..n |-> <<supplier_ref(list[i]), <<1, n>> >>]

\* the market holds no flow from a candidate without entry when another
\* candidate of the technology has one
NoFlowFromUnindexed(region, technology, market) ==
    LET list == candidates(region, technology)
        n == Len(list)
    IN  (\E i \in 1..n : is_indexed(list[i])) =>
            \A i \in 1..n : ~is_indexed(list[i]) =>
                \A e \in Range(technosphere(market)) :
                    ~(e.name = list[i].name /\ e.location = list[i].location)

UnindexedAsClaimed(tier, technologies) ==
    LET region == regions[region_idx]
        found == {t \in Range(technologies) : matching_scopes(region, t) # {}}
    IN  /\ (pc = tier /\ period_idx = 0 /\ pc' = tier) =>
               \A t \in found : IndexedOnly(region, t, tech_suppliers'[t])
        /\ (pc = tier /\ period_idx >= 1) =>
               \A t \in found : NoFlowFromUnindexed(region, t, database'[Len(database')])

\* C30: a candidate supplier without an entry in the production index is not
\* in the allocation a step computes, and gets no flow in the market a step
\* appends, when another candidate of the technology has an entry; when no
\* candidate has one, the allocation holds every candidate with share 1/n
C30_Unindexed ==
    [][/\ UnindexedAsClaimed("high", high_voltage_technologies)
       /\ UnindexedAsClaimed("low", low_voltage_technologies)]_vars

\* a completed run with a coal plant of DE in the index and one of FR that is
\* not: the market of EUR takes coal power from DE and none from FR
C30_Witness ==
    /\ pc = "done"
    /\ Len(scope_matches("Coal PC", {"DE", "FR"})) = 2
    /\ <<coal, "DE">> \in DOMAIN production_per_tech
    /\ <<coal, "FR">> \notin DOMAIN production_per_tech
    /\ \E d \in Range(markets_of("high voltage")) :
           /\ d.location = "EUR"
           /\ \E e \in Range(technosphere(d)) : e.name = coal /\ e.location = "DE"
           /\ \A e \in Range(technosphere(d)) : ~(e.name = coal /\ e.location = "FR")

====
